---------------------------- MODULE Spec2Model ----------------------------
(***************************************************************************)
(* A model of three coordination engines of the FoundationDB server:       *)
(*                                                                         *)
(*   - the master's version coordinator (MasterDataActor: getVersion,      *)
(*     reportLiveCommittedVersion, getLiveCommittedVersion,                *)
(*     updateRecoveryData),                                                *)
(*   - the GRV proxy's transaction tag throttler                           *)
(*     (GrvProxyTransactionTagThrottler: addRequest, updateRates,          *)
(*     releaseTransactions),                                               *)
(*   - the client's load balancer (loadBalance, RequestData).              *)
(*                                                                         *)
(* The three engines share no state.  Each has its own specification       *)
(* (VersionSpec and LiveSpec for the master, ThrottlerSpec and             *)
(* ThrottlerFairSpec for the throttler, LoadBalanceSpec for the load       *)
(* balancer); a specification holds the variables of the other engines     *)
(* at their initial values.                                                *)
(***************************************************************************)
EXTENDS Integers, Sequences, FiniteSets, TLC

Max(a, b) == IF a >= b THEN a ELSE b
Min(a, b) == IF a <= b THEN a ELSE b


RECURSIVE SumOver(_, _)
SumOver(f, dom) ==
    IF dom = {} THEN 0
    ELSE LET x == CHOOSE y \in dom : TRUE IN f[x] + SumOver(f, dom \ {x})

(***************************************************************************)
(*                       MASTER: VERSION COORDINATOR                       *)
(***************************************************************************)

\* ---- bounds of the master model ----
\* getCommitVersion requests received by one master instance
MaxRequests == 3
\* largest requestNum / mostRecentProcessedRequestNum a proxy sends
MaxRequestNum == 2
\* updateRecoveryData requests handled by one master instance
MaxRecoveries == 2
\* now() runs over 0..MaxClock (seconds)
MaxClock == 1
\* ReportRawCommittedVersion requests carry versions 0..MaxReportVersion
MaxReportVersion == 2
\* ReportRawCommittedVersion requests handled by one master instance
MaxReports == 3
\* now() after the master was idle
MaxIdle == 5
\* reports sent to the master that serveLiveCommittedVersion has not taken yet
MaxStream == 1

\* ---- bounds of the throttler model ----
\* requests passed to addRequest
MaxAdds == 3
\* transactions a release window admits for one tag: 0..MaxLimit
MaxLimit == 2

\* ---- bounds of the load balancer model ----
\* alternatives->size()
NumAlternatives == 2
\* startRequest calls of one loadBalance call
MaxAttempts == 3
\* changes of the failure monitor's report during one call
MaxFailureChanges == 2
\* lagging requests that earlier calls left in the model's collection
MaxLagging == 1

\* ---- knobs and constants (values scaled: one version unit = 10^5 versions) ----
invalidVersion == -1
tagLocalityInvalid == -99
VERSIONS_PER_SECOND == 10
MAX_READ_TRANSACTION_LIFE_VERSIONS == 50
\* MAX_VERSION_RATE_MODIFIER = 0.1, as a percentage
MAX_VERSION_RATE_MODIFIER_PCT == 10
MAX_VERSION_RATE_OFFSET == 10

Proxies == {"p1", "p2"}
\* SwiftGNetwork.timer(), in seconds
TimerValues == {0, 1, 2, 7}
RequestNums == 1..MaxRequestNum

\* An absent Optional<Version>
NoVersion == [present |-> FALSE, v |-> 0]
SomeVersion(x) == [present |-> TRUE, v |-> x]

VARIABLES
    \* MasterData
    version,                    \* last commit version handed out
    lastVersionTime,            \* now() at the last allocation
    lastEpochEnd,
    recoveryTransactionVersion,
    referenceVersion,           \* Optional<Version>
    liveCommittedVersion,       \* NotifiedVersion
    minKnownCommittedVersion,
    databaseLocked,
    proxyMetadataVersion,
    locality,
    \* MasterDataActor
    lastCommitProxyVersionReplies, \* [registered proxy -> object id]
    heap,                       \* [object id -> CommitProxyVersionReplies]
    versionTasks,               \* getVersion tasks suspended at the await
    prevTasks,                  \* waitForPrev tasks suspended at the await
    \* environment
    clock,                      \* now()
    enableVersionVector,        \* knob ENABLE_VERSION_VECTOR
    getCommitVersionRequests,   \* requests received so far
    recoveries,                 \* updateRecoveryData requests handled so far
    reports,                    \* reportLiveCommittedVersion requests received so far
    \* observation of the last completed request (history)
    lastReply,                  \* outcome of the last completed getVersion
    watched,                    \* the observed request and its first reply
    lastIssued,                 \* [proxy -> version of the last reply newly allocated for it]
    lastAllocated,              \* version of the last reply newly allocated, for any proxy (history)
    lastReport,                 \* the last report handled by updateLiveCommittedVersion
    acknowledged,               \* the versions of the reports replied to (history)
    applied,                    \* the reports that set liveCommittedVersion (history)
    reportStream,               \* myInterface.reportLiveCommittedVersion: the reports not taken yet
    reportLoop,                 \* id of the report the loop of lines 328-331 awaits, or 0
    failedAssert                \* the assertions of the code that did not hold

masterVars == <<version, lastVersionTime, lastEpochEnd, recoveryTransactionVersion,
                referenceVersion, liveCommittedVersion, minKnownCommittedVersion,
                databaseLocked, proxyMetadataVersion, locality,
                lastCommitProxyVersionReplies, heap, versionTasks, prevTasks,
                clock, enableVersionVector, getCommitVersionRequests, recoveries,
                reports, lastReply, watched, lastIssued, lastAllocated, lastReport, acknowledged,
                applied, reportStream, reportLoop, failedAssert>>

liveStateVars == <<liveCommittedVersion, minKnownCommittedVersion, databaseLocked,
                   proxyMetadataVersion, prevTasks, reports, lastReport, acknowledged,
                   applied, reportStream, reportLoop>>

\* ---- state of the GrvProxyTransactionTagThrottler and of its server loop ----

VARIABLES
    queues,                     \* [tag -> [rateInfo, requests]]
    lastSequenceNumber,         \* DelayedRequest::lastSequenceNumber
    outBatchPriority,           \* the deques releaseTransactions appends to
    outDefaultPriority,
    releasePc,                  \* where the server loop and its releaseTransactions call stand
    pq,                         \* the priority queue of TagInfo
    info,                       \* the TagInfo popped in this iteration of the outer loop
    nextQueueSeqNo,
    transactionsReleased,       \* [tag -> numReleased]
    replied                     \* sequence numbers of the requests that were sent a reply

throttlerVars == <<queues, lastSequenceNumber, outBatchPriority, outDefaultPriority, releasePc,
                   pq, info, nextQueueSeqNo, transactionsReleased, replied>>

\* ---- state of one loadBalance call, its endpoints and its QueueModel ----

VARIABLES
    alternativesSize,           \* alternatives->size()
    atMostOnce,                 \* parameter of the call
    hasModel,                   \* model != nullptr
    alwaysFresh,                \* alternatives->alwaysFresh()
    failed,                     \* the alternatives the failure monitor reports failed
    debounced,                  \* the alternatives whose failedUntil in the model is not
                                \* before now(), for as long as the call runs
    selection,                  \* bestTime and nextTime as the block of lines 271-356
                                \* leaves them and the delay it gave secondDelay; they
                                \* are locals of that block, gone once the loop runs
    bestAlt,
    nextAlt,
    startAlt,
    startDistance,
    secondDelay,                \* "never", or "armed": Void() or a delay that will fire
    secondMultiplier,           \* model->secondMultiplier
    secondBudget,               \* model->secondBudget
    firstRequestData,
    secondRequestData,
    firstRequestEndpoint,
    numAttempts,
    backoff,
    triedAllOptions,
    firstFinished,
    lbPc,                       \* where the call stands
    callResult,                 \* what the call returned or threw
    laggingRequests,            \* [token -> requests in the model's lagging collection]
    outstanding,                \* [token -> ModelHolders registered with the model and
                                \* not yet released]
    failureChanges,             \* how often the failure monitor changed its report
    attempts,                   \* startRequest calls of this call (history)
    lastProcessed,              \* the result checkAndProcessResult handled last, of which
                                \* request, after how many attempts (history)
    maybeDeliveredAt            \* attempts when an awaited attempt of an atMostOnce call
                                \* ended as maybe delivered, -1 before (history)

loadBalanceVars == <<alternativesSize, atMostOnce, hasModel, alwaysFresh, failed, debounced, selection,
                     bestAlt, nextAlt, startAlt,
                     startDistance, secondDelay, secondMultiplier, secondBudget,
                     firstRequestData, secondRequestData, firstRequestEndpoint, numAttempts,
                     backoff, triedAllOptions, firstFinished, lbPc, callResult,
                     laggingRequests, outstanding, failureChanges, attempts, lastProcessed,
                     maybeDeliveredAt>>

\* ---- pure functions ----

clamp(v, lowerBound, upperBound) == Max(Min(v, upperBound), lowerBound)

\* Int64(Double(toAdd) * maxVersionRateModifier): truncation of a non-negative value
RateModified(toAdd, modifierPct) == (toAdd * modifierPct) \div 100

figureVersionNoModifier(current, now, reference, toAdd, modifierPct, maxVersionRateOffset) ==
    LET expected == now * VERSIONS_PER_SECOND - reference
        maxOffset == maxVersionRateOffset
    IN  clamp(expected, current + toAdd - maxOffset, current + toAdd + maxOffset)

figureVersion(current, now, reference, toAdd, modifierPct, maxVersionRateOffset) ==
    LET expected == now * VERSIONS_PER_SECOND - reference
        maxOffset == Min(RateModified(toAdd, modifierPct), maxVersionRateOffset)
    IN  clamp(expected, current + toAdd - maxOffset, current + toAdd + maxOffset)

\* the time after which toAdd is MAX_READ_TRANSACTION_LIFE_VERSIONS
IdleSeconds == MAX_READ_TRANSACTION_LIFE_VERSIONS \div VERSIONS_PER_SECOND

\* toAdd of getVersion: max(1, min(MAX_READ_TRANSACTION_LIFE_VERSIONS, VERSIONS_PER_SECOND * (t1 - lastVersionTime)))
ToAdd(t1, lastTime) ==
    Max(1, Min(MAX_READ_TRANSACTION_LIFE_VERSIONS, VERSIONS_PER_SECOND * (t1 - lastTime)))

\* CommitProxyVersionReplies(): no replies, latestRequestNum = 0
EmptyReplies == [k \in {} |-> 0]

NewCommitProxyVersionReplies == [replies |-> EmptyReplies, latestRequestNum |-> 0]

\* a filter that keeps no earlier reply
FilterRepliesNone(replies, mrp) == EmptyReplies

\* replies.filter { $0.0 > mostRecentProcessedRequestNum }, replies a function on a set of requestNums
FilterReplies(replies, mrp) ==
    [k \in {j \in DOMAIN replies : j > mrp} |-> replies[k]]

\* the new reply is cached first and the acknowledged replies are dropped after it
CacheReplyThenFilter(replies, mrp, rep) ==
    FilterReplies([k \in DOMAIN replies \cup {rep.requestNum} |->
                      IF k = rep.requestNum THEN rep ELSE replies[k]], mrp)

\* lines 167-168: drop the acknowledged replies, then cache the new reply
CacheReply(replies, mrp, rep) ==
    LET kept == FilterReplies(replies, mrp)
    IN  [k \in DOMAIN kept \cup {rep.requestNum} |->
            IF k = rep.requestNum THEN rep ELSE kept[k]]

\* objects still referenced by the dictionary or by a suspended task (the others are freed)
Referenced(dict, tasks) ==
    {dict[p] : p \in DOMAIN dict} \cup {t.obj : t \in tasks}

Collect(h, dict, tasks) ==
    [o \in (DOMAIN h) \cap Referenced(dict, tasks) |-> h[o]]


\* ---- initial state: MasterData(), MasterDataActor() ----

NoReply == [kind |-> "none", proxy |-> "", requestNum |-> 0, obj |-> <<0, "">>,
            version |-> invalidVersion, prevVersion |-> invalidVersion, dup |-> FALSE]

\* one newly answered request is observed (history): the reply it got, the object
\* that served it, and whether a later request allocated through that object has
\* acknowledged it since
NoAnswer == [proxy |-> "", requestNum |-> 0, obj |-> <<0, "">>,
             version |-> invalidVersion, prevVersion |-> invalidVersion, evicted |-> FALSE]

NoReport == [version |-> invalidVersion, waited |-> FALSE]

\* knobVersionVector is the knob ENABLE_VERSION_VECTOR
MasterInit(knobVersionVector) ==
    /\ version = invalidVersion
    /\ lastVersionTime = 0
    /\ lastEpochEnd = invalidVersion
    /\ recoveryTransactionVersion = invalidVersion
    /\ referenceVersion = NoVersion
    /\ liveCommittedVersion = invalidVersion
    /\ minKnownCommittedVersion = invalidVersion
    /\ databaseLocked = FALSE
    /\ proxyMetadataVersion = "none"
    /\ locality = tagLocalityInvalid
    /\ lastCommitProxyVersionReplies = [p \in {} |-> <<0, "">>]
    /\ heap = [o \in {} |-> NewCommitProxyVersionReplies]
    /\ versionTasks = {}
    /\ prevTasks = {}
    /\ clock = 0
    /\ enableVersionVector = knobVersionVector
    /\ getCommitVersionRequests = 0
    /\ recoveries = 0
    /\ reports = 0
    /\ lastReply = NoReply
    /\ watched = NoAnswer
    /\ lastIssued = [p \in Proxies |-> invalidVersion]
    /\ lastAllocated = invalidVersion
    /\ lastReport = NoReport
    /\ acknowledged = {}
    /\ applied = {}
    /\ reportStream = <<>>
    /\ reportLoop = 0
    /\ failedAssert = {}

\* ---- getVersion (getCommitVersion) ----

\* assert(c), recorded when it does not hold
Check(c, name) == IF c THEN {} ELSE {name}

\* the request repeats the observed one: same proxy and requestNum
IsDuplicate(p, k) ==
    /\ watched.proxy = p
    /\ watched.requestNum = k

\* a wait that lets a request pass one requestNum early
AtLeastPreviousOffByOne(latestRequestNum, requestNum) == latestRequestNum >= requestNum - 2

\* the wait of line 112: latestRequestNum.atLeast(requestNum - 1)
AtLeastPrevious(latestRequestNum, requestNum) == latestRequestNum >= requestNum - 1

\* a chain that every reply starts again at recoveryTransactionVersion
PrevVersionFromRecovery(first) == IF first THEN lastEpochEnd ELSE recoveryTransactionVersion

\* a reply that always carries lastEpochEnd
PrevVersionAlwaysEpochEnd(first) == lastEpochEnd

\* rep.prevVersion, lines 132 and 142
PrevVersion(first) == IF first THEN lastEpochEnd ELSE version

\* a task suspended at the await of line 112; id tells apart the tasks of identical
\* requests
NewTask(p, k, m, o) ==
    LET same == {u \in versionTasks : /\ u.proxy = p /\ u.requestNum = k
                                      /\ u.mrp = m /\ u.obj = o}
        used == {u.id : u \in same}
    IN  [id |-> CHOOSE i \in 0..MaxRequests : i \notin used /\ \A j \in 0..(i - 1) : j \in used,
         proxy |-> p, requestNum |-> k, mrp |-> m, obj |-> o]

\* lines 103-113: count the request, look the proxy up, suspend at the await
GetVersionArrive(p, k, m) ==
    /\ UNCHANGED <<throttlerVars, loadBalanceVars>>
    /\ getCommitVersionRequests < MaxRequests
    /\ getCommitVersionRequests' = getCommitVersionRequests + 1
    /\ IF p \notin DOMAIN lastCommitProxyVersionReplies
       THEN \* request from an invalid proxy: return nil, the caller does sendNever()
            /\ lastReply' = [NoReply EXCEPT !.kind = "never", !.proxy = p, !.requestNum = k,
                                            !.dup = IsDuplicate(p, k)]
            /\ UNCHANGED versionTasks
       ELSE /\ versionTasks' = versionTasks \cup
                   {NewTask(p, k, m, lastCommitProxyVersionReplies[p])}
            /\ UNCHANGED lastReply
    /\ UNCHANGED <<version, lastVersionTime, lastEpochEnd, recoveryTransactionVersion,
                   referenceVersion, locality, lastCommitProxyVersionReplies, heap, clock,
                   enableVersionVector, recoveries, watched, lastIssued, lastAllocated,
                   failedAssert>>
    /\ UNCHANGED liveStateVars

\* lines 115-118: the reply cached for this requestNum
ReplyCached(t) ==
    LET o == heap[t.obj]
        rep == o.replies[t.requestNum]
    IN  /\ lastReply' = [kind |-> "cached", proxy |-> t.proxy, requestNum |-> rep.requestNum,
                         obj |-> t.obj, version |-> rep.version,
                         prevVersion |-> rep.prevVersion,
                         dup |-> IsDuplicate(t.proxy, t.requestNum)]
        /\ heap' = Collect(heap, lastCommitProxyVersionReplies, versionTasks')
        /\ UNCHANGED <<version, lastVersionTime, watched, lastIssued, lastAllocated, failedAssert>>

\* an old request that records its requestNum as the latest before it returns nil
ReplyStaleRecording(t) ==
    LET o == heap[t.obj]
    IN  /\ lastReply' = [NoReply EXCEPT !.kind = "never", !.proxy = t.proxy,
                                        !.requestNum = t.requestNum, !.obj = t.obj,
                                        !.dup = IsDuplicate(t.proxy, t.requestNum)]
        /\ failedAssert' = failedAssert \cup
                           Check(t.requestNum < o.latestRequestNum, "stale")
        /\ heap' = Collect([heap EXCEPT ![t.obj].latestRequestNum = t.requestNum],
                           lastCommitProxyVersionReplies, versionTasks')
        /\ UNCHANGED <<version, lastVersionTime, watched, lastIssued, lastAllocated>>

\* lines 119-125: an old request, acknowledged already: return nil
ReplyStale(t) ==
    LET o == heap[t.obj]
    IN  /\ lastReply' = [NoReply EXCEPT !.kind = "never", !.proxy = t.proxy,
                                        !.requestNum = t.requestNum, !.obj = t.obj,
                                        !.dup = IsDuplicate(t.proxy, t.requestNum)]
        /\ failedAssert' = failedAssert \cup
                           Check(t.requestNum < o.latestRequestNum, "stale")
        /\ heap' = Collect(heap, lastCommitProxyVersionReplies, versionTasks')
        /\ UNCHANGED <<version, lastVersionTime, watched, lastIssued, lastAllocated>>

\* lines 127-174: a new version; buggify is BUGGIFY() of line 135, timer is
\* SwiftGNetwork.timer() of line 145; observe says whether this request becomes the
\* observed one
ReplyNew(t, buggify, timer, observe) ==
    LET o == heap[t.obj]
        first == version = invalidVersion
        t1 == IF buggify THEN lastVersionTime ELSE clock
        toAdd == ToAdd(t1, lastVersionTime)
        prevVersion == PrevVersion(first)
        newVersion ==
            IF first THEN recoveryTransactionVersion
            ELSE IF referenceVersion.present
                 THEN figureVersion(version, timer, referenceVersion.v, toAdd,
                                    MAX_VERSION_RATE_MODIFIER_PCT, MAX_VERSION_RATE_OFFSET)
                 ELSE version + toAdd
        rep == [version |-> newVersion, prevVersion |-> prevVersion, requestNum |-> t.requestNum]
        replies == CacheReply(o.replies, t.mrp, rep)
    IN  /\ version' = newVersion
        /\ lastVersionTime' = IF first THEN clock ELSE t1
        /\ heap' = Collect([heap EXCEPT ![t.obj] = [replies |-> replies,
                                                    latestRequestNum |-> t.requestNum]],
                           lastCommitProxyVersionReplies, versionTasks')
        /\ failedAssert' = failedAssert
               \cup Check(first \/ ~referenceVersion.present \/ newVersion > prevVersion, "figure")
               \cup Check(prevVersion >= 0, "prev")
               \cup Check(o.latestRequestNum = t.requestNum - 1, "latest")
        /\ lastReply' = [kind |-> "new", proxy |-> t.proxy, requestNum |-> t.requestNum,
                         obj |-> t.obj, version |-> newVersion, prevVersion |-> prevVersion,
                         dup |-> IsDuplicate(t.proxy, t.requestNum)]
        /\ watched' = IF watched = NoAnswer
                      THEN IF observe
                           THEN [proxy |-> t.proxy, requestNum |-> t.requestNum, obj |-> t.obj,
                                 version |-> newVersion, prevVersion |-> prevVersion,
                                 evicted |-> FALSE]
                           ELSE watched
                      ELSE IF /\ watched.obj = t.obj
                              /\ watched.requestNum < t.requestNum
                              /\ watched.requestNum <= t.mrp
                           THEN [watched EXCEPT !.evicted = TRUE]
                           ELSE watched
        /\ lastIssued' = [lastIssued EXCEPT ![t.proxy] = newVersion]
        /\ lastAllocated' = newVersion

\* lines 112-174: the task resumes once latestRequestNum has reached requestNum - 1
GetVersionResume(t) ==
    /\ UNCHANGED <<throttlerVars, loadBalanceVars>>
    /\ t \in versionTasks
    /\ AtLeastPrevious(heap[t.obj].latestRequestNum, t.requestNum)
    /\ versionTasks' = versionTasks \ {t}
    /\ IF t.requestNum \in DOMAIN heap[t.obj].replies
       THEN ReplyCached(t)
       ELSE IF t.requestNum <= heap[t.obj].latestRequestNum
            THEN ReplyStale(t)
            ELSE \E buggify \in BOOLEAN, timer \in TimerValues, observe \in BOOLEAN :
                    ReplyNew(t, buggify, timer, observe)
    /\ UNCHANGED <<lastEpochEnd, recoveryTransactionVersion, referenceVersion, locality,
                   lastCommitProxyVersionReplies, clock, enableVersionVector,
                   getCommitVersionRequests, recoveries>>
    /\ UNCHANGED liveStateVars

\* now() advances
Tick ==
    /\ UNCHANGED <<throttlerVars, loadBalanceVars>>
    /\ clock < MaxClock
    /\ clock' = clock + 1
    /\ UNCHANGED <<version, lastVersionTime, lastEpochEnd, recoveryTransactionVersion,
                   referenceVersion, locality, lastCommitProxyVersionReplies, heap,
                   versionTasks, enableVersionVector, getCommitVersionRequests, recoveries,
                   lastReply, watched, lastIssued, lastAllocated, failedAssert>>
    /\ UNCHANGED liveStateVars

\* no request arrives for IdleSeconds seconds
Idle ==
    /\ UNCHANGED <<throttlerVars, loadBalanceVars>>
    /\ clock + IdleSeconds <= MaxIdle
    /\ clock' = clock + IdleSeconds
    /\ UNCHANGED <<version, lastVersionTime, lastEpochEnd, recoveryTransactionVersion,
                   referenceVersion, locality, lastCommitProxyVersionReplies, heap,
                   versionTasks, enableVersionVector, getCommitVersionRequests, recoveries,
                   lastReply, watched, lastIssued, lastAllocated, failedAssert>>
    /\ UNCHANGED liveStateVars

\* ---- updateRecoveryData ----

\* a registration that keeps the proxies registered before and not listed now
RegisterKeepingOthers(uids, generation) ==
    [p \in uids \cup DOMAIN lastCommitProxyVersionReplies |->
        IF p \in uids THEN <<generation, p>> ELSE lastCommitProxyVersionReplies[p]]

\* registerLastCommitProxyVersionReplies(uids:): a fresh object for every listed proxy
RegisterLastCommitProxyVersionReplies(uids, generation) ==
    [p \in uids |-> <<generation, p>>]

\* lines 350-390; versionEpoch is the request's Optional<Version>, buggifyEpoch is
\* the value drawn at line 380 when BUGGIFY() holds (absent: BUGGIFY() is false)
UpdateRecoveryData(rtv, lee, commitProxies, versionEpoch, buggifyEpoch, primaryLocality) ==
    /\ UNCHANGED <<throttlerVars, loadBalanceVars>>
    /\ recoveries < MaxRecoveries
    /\ recoveries' = recoveries + 1
    /\ recoveryTransactionVersion' = rtv
    /\ lastEpochEnd' = lee
    /\ IF commitProxies # {}
       THEN /\ lastCommitProxyVersionReplies' =
                   RegisterLastCommitProxyVersionReplies(commitProxies, recoveries + 1)
            /\ heap' = Collect([o \in DOMAIN heap \cup {<<recoveries + 1, p>> : p \in commitProxies} |->
                                   IF o \in DOMAIN heap THEN heap[o]
                                   ELSE NewCommitProxyVersionReplies],
                               lastCommitProxyVersionReplies', versionTasks)
       ELSE UNCHANGED <<lastCommitProxyVersionReplies, heap>>
    /\ referenceVersion' = IF versionEpoch.present THEN versionEpoch
                           ELSE IF buggifyEpoch.present THEN buggifyEpoch
                           ELSE referenceVersion
    /\ locality' = primaryLocality
    /\ UNCHANGED <<version, lastVersionTime, versionTasks, clock, enableVersionVector,
                   getCommitVersionRequests, lastReply, watched, lastIssued, lastAllocated,
                   failedAssert>>
    /\ UNCHANGED liveStateVars

\* the requests the cluster controller sends: lastEpochEnd is a version of the old
\* epoch (>= 0) and recoveryTransactionVersion, the first version of the new one, is
\* larger; versionEpoch is the request's Optional<Version>, buggifyEpoch the epoch
\* BUGGIFY draws from [-1e6, 0]
RecoveryRequests ==
    {[lastEpochEnd |-> 0, recoveryTransactionVersion |-> 1, commitProxies |-> Proxies,
      versionEpoch |-> NoVersion, buggifyEpoch |-> NoVersion],
     [lastEpochEnd |-> 1, recoveryTransactionVersion |-> 3, commitProxies |-> Proxies,
      versionEpoch |-> SomeVersion(2), buggifyEpoch |-> NoVersion],
     [lastEpochEnd |-> 1, recoveryTransactionVersion |-> 3, commitProxies |-> {"p1"},
      versionEpoch |-> NoVersion, buggifyEpoch |-> SomeVersion(-2)],
     [lastEpochEnd |-> 0, recoveryTransactionVersion |-> 1, commitProxies |-> {},
      versionEpoch |-> NoVersion, buggifyEpoch |-> NoVersion]}

Localities == {0}

\* the requests of serveUpdateRecoveryData
UpdateRecoveryDataAny ==
    \E req \in RecoveryRequests, primaryLocality \in Localities :
        UpdateRecoveryData(req.recoveryTransactionVersion, req.lastEpochEnd,
                           req.commitProxies, req.versionEpoch, req.buggifyEpoch,
                           primaryLocality)

\* ---- live committed version ----

\* updateLiveCommittedVersion without the comparison of line 40
updateLiveCommittedVersionUnguarded(req) ==
    /\ minKnownCommittedVersion' = Max(minKnownCommittedVersion, req.minKnownCommittedVersion)
    /\ databaseLocked' = req.locked
    /\ proxyMetadataVersion' = req.metadataVersion
    /\ liveCommittedVersion' = req.version

\* an update that also applies a report of the version that is live already
updateLiveCommittedVersionAtLeast(req) ==
    /\ minKnownCommittedVersion' = Max(minKnownCommittedVersion, req.minKnownCommittedVersion)
    /\ IF req.version >= liveCommittedVersion
       THEN /\ databaseLocked' = req.locked
            /\ proxyMetadataVersion' = req.metadataVersion
            /\ liveCommittedVersion' = req.version
       ELSE UNCHANGED <<databaseLocked, proxyMetadataVersion, liveCommittedVersion>>

\* lines 37-60 (the version vector itself is not modelled)
updateLiveCommittedVersion(req) ==
    /\ minKnownCommittedVersion' = Max(minKnownCommittedVersion, req.minKnownCommittedVersion)
    /\ IF req.version > liveCommittedVersion
       THEN /\ databaseLocked' = req.locked
            /\ proxyMetadataVersion' = req.metadataVersion
            /\ liveCommittedVersion' = req.version
       ELSE UNCHANGED <<databaseLocked, proxyMetadataVersion, liveCommittedVersion>>

\* line 40: the report sets liveCommittedVersion (history); waited says that it
\* went through waitForPrev
Applying(req, waited) ==
    IF req.version > liveCommittedVersion
    THEN {[version |-> req.version, locked |-> req.locked,
           metadataVersion |-> req.metadataVersion, waited |-> waited]}
    ELSE {}

\* the reports of the commit proxies: a report says whether the database is locked
\* and carries the metadata version of its commit
ReportPayloads == {<<FALSE, "none">>, <<TRUE, "m1">>}

ReportRequests ==
    {[version |-> v, prevVersion |-> pv, minKnownCommittedVersion |-> mk,
      locked |-> pl[1], metadataVersion |-> pl[2]] :
        v \in 0..MaxReportVersion,
        pv \in {NoVersion} \cup {SomeVersion(x) : x \in 1..MaxReportVersion},
        mk \in 0..1, pl \in ReportPayloads}

\* a report that never waits
waitsForPrevNever(req) == FALSE

\* lines 302-305: the report goes through waitForPrev
waitsForPrev(req) ==
    /\ req.prevVersion.present
    /\ enableVersionVector
    /\ liveCommittedVersion # invalidVersion
    /\ liveCommittedVersion < req.prevVersion.v

\* lines 301-312: reportLiveCommittedVersion; with the version vector enabled a report
\* whose prevVersion is not live yet suspends in waitForPrev (line 203)
reportLiveCommittedVersion(req) ==
    /\ UNCHANGED <<throttlerVars, loadBalanceVars>>
    /\ reports < MaxReports
    /\ reports' = reports + 1
    /\ IF waitsForPrev(req)
       THEN /\ prevTasks' = prevTasks \cup {[id |-> reports + 1, req |-> req]}
            /\ UNCHANGED <<liveCommittedVersion, minKnownCommittedVersion, databaseLocked,
                           proxyMetadataVersion, lastReport, acknowledged, applied>>
       ELSE /\ updateLiveCommittedVersion(req)
            /\ lastReport' = [version |-> req.version, waited |-> FALSE]
            /\ acknowledged' = acknowledged \cup {req.version}
            /\ applied' = applied \cup Applying(req, FALSE)
            /\ UNCHANGED prevTasks
    /\ UNCHANGED <<version, lastVersionTime, lastEpochEnd, recoveryTransactionVersion,
                   referenceVersion, locality, lastCommitProxyVersionReplies, heap,
                   versionTasks, clock, enableVersionVector, getCommitVersionRequests,
                   recoveries, lastReply, watched, lastIssued, lastAllocated, failedAssert>>

\* a report handled in a task of its own
ReportLiveCommittedVersion(req) ==
    /\ reportLoop = 0
    /\ reportStream = <<>>
    /\ reportLiveCommittedVersion(req)
    /\ UNCHANGED <<reportStream, reportLoop>>

\* a commit proxy sends a report to myInterface.reportLiveCommittedVersion
SendReport(req) ==
    /\ Len(reportStream) < MaxStream
    /\ reports + Len(reportStream) < MaxReports
    /\ reportStream' = Append(reportStream, req)
    /\ UNCHANGED <<version, lastVersionTime, lastEpochEnd, recoveryTransactionVersion,
                   referenceVersion, liveCommittedVersion, minKnownCommittedVersion,
                   databaseLocked, proxyMetadataVersion, locality,
                   lastCommitProxyVersionReplies, heap, versionTasks, prevTasks, clock,
                   enableVersionVector, getCommitVersionRequests, recoveries, reports,
                   lastReply, watched, lastIssued, lastAllocated, lastReport, acknowledged, applied,
                   reportLoop, failedAssert>>
    /\ UNCHANGED <<throttlerVars, loadBalanceVars>>

\* lines 328-331: the loop takes the next report once the report before it has
\* returned, and awaits reportLiveCommittedVersion for it
ServeLiveCommittedVersion ==
    /\ reportLoop = 0
    /\ reportStream # <<>>
    /\ reportLiveCommittedVersion(Head(reportStream))
    /\ reportStream' = Tail(reportStream)
    /\ reportLoop' = IF waitsForPrev(Head(reportStream)) THEN reports + 1 ELSE 0

\* lines 216-228: waitForPrev called from outside the loop, in a task of its own
WaitForPrevCall(req) ==
    /\ req.prevVersion.present
    /\ reports + Len(reportStream) < MaxReports
    /\ reports' = reports + 1
    /\ prevTasks' = prevTasks \cup {[id |-> reports + 1, req |-> req]}
    /\ UNCHANGED <<version, lastVersionTime, lastEpochEnd, recoveryTransactionVersion,
                   referenceVersion, liveCommittedVersion, minKnownCommittedVersion,
                   databaseLocked, proxyMetadataVersion, locality,
                   lastCommitProxyVersionReplies, heap, versionTasks, clock,
                   enableVersionVector, getCommitVersionRequests, recoveries,
                   lastReply, watched, lastIssued, lastAllocated, lastReport, acknowledged, applied,
                   reportStream, reportLoop, failedAssert>>
    /\ UNCHANGED <<throttlerVars, loadBalanceVars>>

\* lines 203-213: waitForPrev resumes once liveCommittedVersion has reached
\* prevVersion; the loop goes on if it awaited this report (line 329)
WaitForPrevResume(t) ==
    /\ UNCHANGED <<throttlerVars, loadBalanceVars>>
    /\ t \in prevTasks
    /\ liveCommittedVersion >= t.req.prevVersion.v
    /\ prevTasks' = prevTasks \ {t}
    /\ updateLiveCommittedVersion(t.req)
    /\ lastReport' = [version |-> t.req.version, waited |-> TRUE]
    /\ acknowledged' = acknowledged \cup {t.req.version}
    /\ applied' = applied \cup Applying(t.req, TRUE)
    /\ reportLoop' = IF reportLoop = t.id THEN 0 ELSE reportLoop
    /\ UNCHANGED reportStream
    /\ UNCHANGED <<version, lastVersionTime, lastEpochEnd, recoveryTransactionVersion,
                   referenceVersion, locality, lastCommitProxyVersionReplies, heap,
                   versionTasks, clock, enableVersionVector, getCommitVersionRequests,
                   recoveries, reports, lastReply, watched, lastIssued, lastAllocated,
                   failedAssert>>

\* a getLiveCommittedVersion that sets liveCommittedVersion to
\* recoveryTransactionVersion whatever it was
InitialisedAlways == recoveryTransactionVersion

\* lines 281-283: liveCommittedVersion, set to recoveryTransactionVersion when it is
\* invalidVersion
InitialisedLiveCommittedVersion ==
    IF liveCommittedVersion = invalidVersion
    THEN recoveryTransactionVersion
    ELSE liveCommittedVersion

\* lines 287-291: the reply of getLiveCommittedVersion, read after line 282
GetRawCommittedVersionReply ==
    [version |-> InitialisedLiveCommittedVersion,
     locked |-> databaseLocked,
     metadataVersion |-> proxyMetadataVersion,
     minKnownCommittedVersion |-> minKnownCommittedVersion]

\* lines 273-299: getLiveCommittedVersion
GetLiveCommittedVersion ==
    /\ UNCHANGED <<throttlerVars, loadBalanceVars>>
    /\ liveCommittedVersion' = InitialisedLiveCommittedVersion
    /\ UNCHANGED <<version, lastVersionTime, lastEpochEnd, recoveryTransactionVersion,
                   referenceVersion, minKnownCommittedVersion, databaseLocked,
                   proxyMetadataVersion, locality, lastCommitProxyVersionReplies, heap,
                   versionTasks, prevTasks, clock, enableVersionVector,
                   getCommitVersionRequests, recoveries, reports, lastReply, watched,
                   lastIssued, lastAllocated, lastReport, acknowledged, applied, reportStream,
                   reportLoop, failedAssert>>

\* ---- GrvProxyTransactionTagThrottler ----

Tags == {"tagA", "tagB"}
Priorities == {"BATCH", "DEFAULT"}
Rates == {1, 2}

\* std::numeric_limits<int64_t>::max(), above every sequence number
INT64_MAX == MaxAdds + 1

NoRateInfo == [present |-> FALSE, rate |-> 0, limit |-> 0]

\* GrvTransactionRateInfo(rate): no release window started yet
NewRateInfo(rate) == [present |-> TRUE, rate |-> rate, limit |-> 0]

\* GrvTransactionRateInfo::canStart, for the limit of the current release window
canStart(rateInfo, numAlreadyStarted, count) == numAlreadyStarted + count <= rateInfo.limit

\* GrvTransactionRateInfo::startReleaseWindow: the window gets its limit
startReleaseWindow(rateInfo, limit) == [rateInfo EXCEPT !.limit = limit]

\* GrvTransactionRateInfo::endReleaseWindow: the window's limit is spent
endReleaseWindow(rateInfo) == [rateInfo EXCEPT !.limit = 0]

\* TagQueue::setRate
setRate(queue, rate) ==
    IF queue.rateInfo.present
    THEN [queue EXCEPT !.rateInfo.rate = rate]
    ELSE [queue EXCEPT !.rateInfo = NewRateInfo(rate)]

\* TagQueue(rate) and the TagQueue that queues[tag] default-constructs
NewTagQueue(rate) == [rateInfo |-> NewRateInfo(rate), requests |-> <<>>]
EmptyTagQueue == [rateInfo |-> NoRateInfo, requests |-> <<>>]

NoTagInfo == [tag |-> "", nextSeqNo |-> -1]

ThrottlerInit ==
    /\ queues = [t \in {} |-> EmptyTagQueue]
    /\ lastSequenceNumber = 0
    /\ outBatchPriority = <<>>
    /\ outDefaultPriority = <<>>
    /\ releasePc = "idle"
    /\ pq = {}
    /\ info = NoTagInfo
    /\ nextQueueSeqNo = 0
    /\ transactionsReleased = [t \in {} |-> 0]
    /\ replied = {}

\* a queue that is never cleaned up
erasableNever(queue) == FALSE

\* line 553: updateRates erases a queue without requests and without rate-info
erasable(queue) == queue.requests = <<>> /\ ~queue.rateInfo.present

\* updateRates(newRates), newRates a function on a set of tags
UpdateRates(newRates) ==
    LET set == [t \in DOMAIN queues \cup DOMAIN newRates |->
                    IF t \in DOMAIN newRates
                    THEN IF t \in DOMAIN queues THEN setRate(queues[t], newRates[t])
                         ELSE NewTagQueue(newRates[t])
                    ELSE queues[t]]
        reset == [t \in DOMAIN set |->
                    IF t \in DOMAIN newRates THEN set[t]
                    ELSE [set[t] EXCEPT !.rateInfo = NoRateInfo]]
        kept == {t \in DOMAIN reset : ~erasable(reset[t])}
    IN  /\ releasePc = "idle"
        /\ queues' = [t \in kept |-> reset[t]]
        /\ UNCHANGED <<lastSequenceNumber, outBatchPriority, outDefaultPriority, releasePc, pq,
                       info, nextQueueSeqNo, transactionsReleased, replied>>
        /\ UNCHANGED <<masterVars, loadBalanceVars>>

\* size(): the number of queues
size == Cardinality(DOMAIN queues)

\* the requests of the clients: tagged, of batch or default priority; a request
\* counts the same number of transactions for each of its tags
Counts == {1, 2}

GetReadVersionRequests ==
    {[tags |-> ts, count |-> c, priority |-> pr] :
        ts \in (SUBSET Tags) \ {{}}, c \in Counts, pr \in Priorities}

\* DelayedRequest(req): the next sequence number
DelayedRequest(req) ==
    [sequenceNumber |-> lastSequenceNumber, count |-> req.count, priority |-> req.priority]

\* addRequest(req); tag is req.tags.begin()->first, any of the request's tags
AddRequest(req, tag) ==
    /\ releasePc = "idle"
    /\ lastSequenceNumber < MaxAdds
    /\ tag \in req.tags
    /\ lastSequenceNumber' = lastSequenceNumber + 1
    /\ queues' = [t \in DOMAIN queues \cup {tag} |->
                    LET q == IF t \in DOMAIN queues THEN queues[t] ELSE EmptyTagQueue
                    IN  IF t = tag
                        THEN [q EXCEPT !.requests = Append(q.requests, DelayedRequest(req))]
                        ELSE q]
    /\ UNCHANGED <<outBatchPriority, outDefaultPriority, releasePc, pq, info, nextQueueSeqNo,
                   transactionsReleased, replied>>
    /\ UNCHANGED <<masterVars, loadBalanceVars>>

\* the deque a released request is appended to when every request is taken for
\* one of default priority
OutputAlwaysDefault(priority) == "default"

\* lines 627-634: the deque a released request is appended to
OutputOf(priority) == IF priority = "BATCH" THEN "batch" ELSE "default"

\* std::priority_queue<TagInfo>::top(): the greatest element by TagInfo::operator<,
\* which compares nextSeqNo
Top(q) == CHOOSE a \in q : \A b \in q : ~(a.nextSeqNo < b.nextSeqNo)

\* lines 597-606: start the release windows (limits gives each window's limit) and
\* build the priority queue of the tags with queued requests
ReleaseBegin(limits) ==
    /\ releasePc = "idle"
    /\ queues' = [t \in DOMAIN queues |->
                    IF queues[t].rateInfo.present
                    THEN [queues[t] EXCEPT !.rateInfo = startReleaseWindow(@, limits[t])]
                    ELSE queues[t]]
    /\ transactionsReleased' = [t \in {u \in DOMAIN queues : queues[u].requests # <<>>} |-> 0]
    /\ pq' = {[tag |-> t, nextSeqNo |-> Head(queues[t].requests).sequenceNumber] :
                t \in {u \in DOMAIN queues : queues[u].requests # <<>>}}
    /\ releasePc' = "top"
    /\ UNCHANGED <<lastSequenceNumber, outBatchPriority, outDefaultPriority, info,
                   nextQueueSeqNo, replied>>
    /\ UNCHANGED <<masterVars, loadBalanceVars>>

\* lines 608-612: the outer loop pops the top of the priority queue
ReleasePop ==
    /\ releasePc = "top"
    /\ pq # {}
    /\ info' = Top(pq)
    /\ pq' = pq \ {Top(pq)}
    /\ nextQueueSeqNo' = IF pq' = {} THEN INT64_MAX ELSE Top(pq').nextSeqNo
    /\ releasePc' = "tag"
    /\ UNCHANGED <<queues, lastSequenceNumber, outBatchPriority, outDefaultPriority,
                   transactionsReleased, replied>>
    /\ UNCHANGED <<masterVars, loadBalanceVars>>

\* a check of the budget that forgets what the call released for the tag before
ThrottledFromZero(rateInfo, numReleased, count) ==
    rateInfo.present /\ ~canStart(rateInfo, 0, count)

\* line 617: the tag has a rate-info, and it does not admit count more transactions
\* after the numReleased that the call released for the tag
Throttled(rateInfo, numReleased, count) ==
    rateInfo.present /\ ~canStart(rateInfo, numReleased, count)

\* lines 614-646: the inner loop over the requests of info's queue; st holds what
\* the loop changes, pushed says that info went back into the priority queue
RECURSIVE ReleaseFromTag(_, _)
ReleaseFromTag(rateInfo, st) ==
    IF st.requests = <<>> THEN st
    ELSE LET delayedReq == Head(st.requests)
             count == delayedReq.count
         IN  IF Throttled(rateInfo, st.numReleased, count)
             THEN st
             ELSE IF st.nextSeqNo < nextQueueSeqNo
                  THEN LET rest == Tail(st.requests)
                           out == OutputOf(delayedReq.priority)
                       IN  ReleaseFromTag(rateInfo,
                              [requests |-> rest,
                               numReleased |-> st.numReleased + count,
                               outBatch |-> IF out = "batch"
                                            THEN Append(st.outBatch, delayedReq)
                                            ELSE st.outBatch,
                               outDefault |-> IF out = "default"
                                              THEN Append(st.outDefault, delayedReq)
                                              ELSE st.outDefault,
                               nextSeqNo |-> IF rest # <<>> THEN Head(rest).sequenceNumber
                                             ELSE st.nextSeqNo,
                               pushed |-> FALSE])
                  ELSE [st EXCEPT !.pushed = TRUE]

\* lines 614-646, one iteration of the outer loop after the pop
ReleaseTag ==
    LET queue == queues[info.tag]
        st == ReleaseFromTag(queue.rateInfo,
                             [requests |-> queue.requests,
                              numReleased |-> transactionsReleased[info.tag],
                              outBatch |-> outBatchPriority,
                              outDefault |-> outDefaultPriority,
                              nextSeqNo |-> info.nextSeqNo,
                              pushed |-> FALSE])
    IN  /\ releasePc = "tag"
        /\ queues' = [queues EXCEPT ![info.tag].requests = st.requests]
        /\ transactionsReleased' = [transactionsReleased EXCEPT ![info.tag] = st.numReleased]
        /\ outBatchPriority' = st.outBatch
        /\ outDefaultPriority' = st.outDefault
        /\ pq' = IF st.pushed THEN pq \cup {[tag |-> info.tag, nextSeqNo |-> st.nextSeqNo]}
                 ELSE pq
        /\ info' = NoTagInfo
        /\ nextQueueSeqNo' = 0
        /\ releasePc' = "top"
        /\ UNCHANGED <<lastSequenceNumber, replied>>
        /\ UNCHANGED <<masterVars, loadBalanceVars>>

\* lines 608 and 650-660: the priority queue is empty, the release windows end and
\* releaseTransactions returns
ReleaseEnd ==
    /\ releasePc = "top"
    /\ pq = {}
    /\ queues' = [t \in DOMAIN queues |->
                    IF queues[t].rateInfo.present
                    THEN [queues[t] EXCEPT !.rateInfo = endReleaseWindow(@)]
                    ELSE queues[t]]
    /\ transactionsReleased' = [t \in {} |-> 0]
    /\ releasePc' = "reply"
    /\ UNCHANGED <<lastSequenceNumber, outBatchPriority, outDefaultPriority, pq, info,
                   nextQueueSeqNo, replied>>
    /\ UNCHANGED <<masterVars, loadBalanceVars>>

\* mockServer, lines 698-705: every released request is sent its reply
SendReplies ==
    /\ releasePc = "reply"
    /\ replied' = replied \cup {outBatchPriority[i].sequenceNumber : i \in DOMAIN outBatchPriority}
                          \cup {outDefaultPriority[i].sequenceNumber : i \in DOMAIN outDefaultPriority}
    /\ outBatchPriority' = <<>>
    /\ outDefaultPriority' = <<>>
    /\ releasePc' = "idle"
    /\ UNCHANGED <<queues, lastSequenceNumber, pq, info, nextQueueSeqNo, transactionsReleased>>
    /\ UNCHANGED <<masterVars, loadBalanceVars>>

\* a release window that admits every queued request
AdmitAll == [t \in Tags |-> MaxLimit]

ThrottlerNext ==
    \/ \E newRates \in UNION {[ts -> Rates] : ts \in SUBSET Tags} : UpdateRates(newRates)
    \/ \E req \in GetReadVersionRequests, tag \in Tags : AddRequest(req, tag)
    \/ \E limits \in [Tags -> 0..MaxLimit] : ReleaseBegin(limits)
    \/ ReleasePop
    \/ ReleaseTag
    \/ ReleaseEnd
    \/ SendReplies

(***************************************************************************)
(*                        CLIENT: LOAD BALANCER                            *)
(***************************************************************************)

\* ---- knobs (scaled: budget in units of 1.0, backoff in units of START_BACKOFF) ----
LOAD_BALANCE_START_BACKOFF == 1
LOAD_BALANCE_MAX_BACKOFF == 4
LOAD_BALANCE_BACKOFF_RATE == 2
SECOND_REQUEST_MULTIPLIER_GROWTH == 1
SECOND_REQUEST_MULTIPLIER_DECAY == 1
SECOND_REQUEST_BUDGET_GROWTH == 1
SECOND_REQUEST_MAX_BUDGET == 2
\* scaled: the lagging collection is restarted when it holds more than this many
MAX_LAGGING_REQUESTS_OUTSTANDING == 1
LOAD_BALANCE_MAX_BAD_OPTIONS == 1
\* times count in units of BASE_SECOND_REQUEST_TIME
BASE_SECOND_REQUEST_TIME == 1
INSTANT_SECOND_REQUEST_MULTIPLIER == 2

\* the alternatives of the call, by index
Alternatives == 0..(alternativesSize - 1)
NoEndpoint == -1

\* QueueModel: no request registered for any endpoint token
NoTokens == [t \in Alternatives |-> 0]

\* QueueModel::addRequest(token), called by the ModelHolder of a sent request
modelAddRequest(out, token, model) ==
    IF model THEN [out EXCEPT ![token] = @ + 1] ELSE out

\* QueueModel::endRequest(token, ...), called once by ModelHolder::release
modelEndRequest(out, token, model) ==
    IF model THEN [out EXCEPT ![token] = @ - 1] ELSE out

\* the error codes a reply can carry
ErrorCodes == {"broken_promise", "request_maybe_delivered", "server_overloaded",
               "future_version", "process_behind", "wrong_shard_server"}

\* ErrorOr<Reply>: a transport error, a reply that is no LoadBalancedReply, or a
\* LoadBalancedReply with or without an inner error
Results ==
    {[isError |-> TRUE, code |-> c, lb |-> FALSE, lbError |-> "none"] : c \in ErrorCodes}
    \cup {[isError |-> FALSE, code |-> "success", lb |-> FALSE, lbError |-> "none"]}
    \cup {[isError |-> FALSE, code |-> "success", lb |-> TRUE, lbError |-> e] :
            e \in ErrorCodes \cup {"none"}}

NoResult == [isError |-> FALSE, code |-> "none", lb |-> FALSE, lbError |-> "none"]

\* lines 131-142
ErrCode(result) ==
    IF ~result.isError /\ result.lb
    THEN IF result.lbError # "none" THEN result.lbError ELSE "success"
    ELSE IF result.isError THEN result.code ELSE "success"

\* line 144
MaybeDelivered(result) == ErrCode(result) \in {"broken_promise", "request_maybe_delivered"}

\* a reply counts as received unless it is maybe delivered, process_behind or
\* future_version
ReceivedResponseNotFuture(result) ==
    \/ IF ~result.isError /\ result.lb THEN result.lbError = "none" ELSE ~result.isError
    \/ (~MaybeDelivered(result) /\ ErrCode(result) \notin {"process_behind", "future_version"})

\* only a reply without an error counts as received
ReceivedResponseDelivered(result) ==
    IF ~result.isError /\ result.lb THEN result.lbError = "none" ELSE ~result.isError

\* line 148: the futureVersion that modelHolder->release is given
FutureVersion(result) == ErrCode(result) \in {"future_version", "process_behind"}

\* lines 145-147
ReceivedResponse(result) ==
    \/ IF ~result.isError /\ result.lb THEN result.lbError = "none" ELSE ~result.isError
    \/ (~MaybeDelivered(result) /\ ErrCode(result) # "process_behind")

LbTrue == [kind |-> "true", code |-> "success"]
LbFalse == [kind |-> "false", code |-> "success"]
LbError(c) == [kind |-> "error", code |-> c]

\* checkAndProcessResultImpl without the atMostOnce case of lines 169-171
checkAndProcessResultImplRetrying(result, atMostOnceArg, triedAllOptionsArg) ==
    LET errCode == ErrCode(result)
        lbPresent == ~result.isError /\ result.lb
    IN  IF errCode = "server_overloaded" THEN LbFalse
        ELSE IF lbPresent /\ result.lbError = "none" THEN LbTrue
        ELSE IF ~lbPresent /\ ~result.isError THEN LbTrue
        ELSE IF ReceivedResponse(result) THEN LbError(errCode)
        ELSE IF triedAllOptionsArg /\ errCode = "process_behind" THEN LbError("process_behind")
        ELSE LbFalse

\* checkAndProcessResultImpl without the server_overloaded case of lines 153-155
checkAndProcessResultImplOverloaded(result, atMostOnceArg, triedAllOptionsArg) ==
    LET errCode == ErrCode(result)
        lbPresent == ~result.isError /\ result.lb
    IN  IF lbPresent /\ result.lbError = "none" THEN LbTrue
        ELSE IF ~lbPresent /\ ~result.isError THEN LbTrue
        ELSE IF ReceivedResponse(result) THEN LbError(errCode)
        ELSE IF atMostOnceArg /\ MaybeDelivered(result) THEN LbError("request_maybe_delivered")
        ELSE IF triedAllOptionsArg /\ errCode = "process_behind" THEN LbError("process_behind")
        ELSE LbFalse

\* RequestData::checkAndProcessResultImpl, lines 125-178: true, false or an error
checkAndProcessResultImpl(result, atMostOnceArg, triedAllOptionsArg) ==
    LET errCode == ErrCode(result)
        lbPresent == ~result.isError /\ result.lb
    IN  IF errCode = "server_overloaded" THEN LbFalse
        ELSE IF lbPresent /\ result.lbError = "none" THEN LbTrue
        ELSE IF ~lbPresent /\ ~result.isError THEN LbTrue
        ELSE IF ReceivedResponse(result) THEN LbError(errCode)
        ELSE IF atMostOnceArg /\ MaybeDelivered(result) THEN LbError("request_maybe_delivered")
        ELSE IF triedAllOptionsArg /\ errCode = "process_behind" THEN LbError("process_behind")
        ELSE LbFalse

\* a RequestData whose response is not valid
NoRequestData == [valid |-> FALSE, requestStarted |-> FALSE, requestProcessed |-> FALSE,
                  triedAllOptions |-> FALSE, modelHolder |-> FALSE, endpoint |-> NoEndpoint]

\* a request that takes every alternative as tried
startRequestTriedAll(backoffArg, triedAllOptionsArg, stream) ==
    [valid |-> TRUE, requestStarted |-> backoffArg = 0, requestProcessed |-> FALSE,
     triedAllOptions |-> TRUE, modelHolder |-> backoffArg = 0,
     endpoint |-> stream]

\* RequestData::startRequest, lines 95-118: with a backoff the request is sent when
\* the delay has elapsed
startRequest(backoffArg, triedAllOptionsArg, stream) ==
    [valid |-> TRUE, requestStarted |-> backoffArg = 0, requestProcessed |-> FALSE,
     triedAllOptions |-> triedAllOptionsArg, modelHolder |-> backoffArg = 0,
     endpoint |-> stream]

\* a backoff that grows from the first counted attempt on
NextBackoffAlways(attemptsSoFar, backoffArg) ==
    Min(LOAD_BALANCE_MAX_BACKOFF,
        Max(LOAD_BALANCE_START_BACKOFF, backoffArg * LOAD_BALANCE_BACKOFF_RATE))

\* lines 487-491 and 526-530
NextBackoff(attemptsSoFar, backoffArg) ==
    IF attemptsSoFar >= alternativesSize
    THEN Min(LOAD_BALANCE_MAX_BACKOFF,
             Max(LOAD_BALANCE_START_BACKOFF, backoffArg * LOAD_BALANCE_BACKOFF_RATE))
    ELSE backoffArg

\* lines 389-393: the alternative looked at when the loop stands at na
UseAlt(na) ==
    IF na = startAlt THEN bestAlt
    ELSE IF (na + alternativesSize - startAlt) % alternativesSize <= startDistance
         THEN (na + alternativesSize - 1) % alternativesSize
         ELSE na

\* a search that does not ask the failure monitor
RECURSIVE FindStreamUnmonitored(_, _, _)
FindStreamUnmonitored(n, na, tried) ==
    IF n = alternativesSize THEN [stream |-> NoEndpoint, nextAlt |-> na, triedAllOptions |-> tried]
    ELSE LET na2 == (na + 1) % alternativesSize
         IN  IF UseAlt(na) # firstRequestEndpoint
             THEN [stream |-> UseAlt(na), nextAlt |-> na, triedAllOptions |-> tried]
             ELSE FindStreamUnmonitored(n + 1, na2, tried \/ na2 = startAlt)

\* a search that does not look at the endpoint of the first request
RECURSIVE FindStreamAnyEndpoint(_, _, _)
FindStreamAnyEndpoint(n, na, tried) ==
    IF n = alternativesSize THEN [stream |-> NoEndpoint, nextAlt |-> na, triedAllOptions |-> tried]
    ELSE LET na2 == (na + 1) % alternativesSize
         IN  IF UseAlt(na) \notin failed
             THEN [stream |-> UseAlt(na), nextAlt |-> na, triedAllOptions |-> tried]
             ELSE FindStreamAnyEndpoint(n + 1, na2, tried \/ na2 = startAlt)

\* lines 388-404: the search for an alternative that is not failed and is not the
\* endpoint of the first request; n alternatives have been looked at
RECURSIVE FindStream(_, _, _)
FindStream(n, na, tried) ==
    IF n = alternativesSize THEN [stream |-> NoEndpoint, nextAlt |-> na, triedAllOptions |-> tried]
    ELSE LET useAlt == UseAlt(na)
             na2 == (na + 1) % alternativesSize
         IN  IF useAlt \notin failed /\ useAlt # firstRequestEndpoint
             THEN [stream |-> useAlt, nextAlt |-> na, triedAllOptions |-> tried]
             ELSE FindStream(n + 1, na2, tried \/ na2 = startAlt)

Found == FindStream(0, nextAlt, triedAllOptions)

NoCallResult == [kind |-> "none", code |-> "none"]

\* lines 272-275: 1e9, the metric and the time of a choice that was not measured
Infinite == 1000

\* lines 291-296: what the choice reads of getMeasurement(token):
\* smoothOutstanding.smoothTotal(), latency, and whether
\* LOAD_BALANCE_PENALTY_IS_BAD && penalty > 1.001; the latencies count in units of
\* BASE_SECOND_REQUEST_TIME
QueueData == [smoothOutstanding : 0..1, latency : {1, 4, 8}, penaltyBad : BOOLEAN]

\* before the choice
NoSelection == [bestTime |-> Infinite, nextTime |-> Infinite, after |-> -1]
NoProcessed == [which |-> "none", result |-> NoResult, at |-> 0, futureVersion |-> FALSE]

\* before the call, for a call with these parameters, this report of the failure
\* monitor, this budget of the model and these lagging requests that earlier calls
\* left in the model's collection
LoadBalanceInit(sizeArg, atMostOnceArg, modelArg, freshArg, failedArg, debouncedArg, budgetArg, laggingArg) ==
    /\ alternativesSize = sizeArg
    /\ atMostOnce = atMostOnceArg
    /\ hasModel = modelArg
    /\ alwaysFresh = freshArg
    /\ failed = failedArg
    /\ debounced = debouncedArg
    /\ selection = NoSelection
    /\ bestAlt = 0
    /\ nextAlt = 0
    /\ startAlt = 0
    /\ startDistance = 0
    /\ secondDelay = "never"
    /\ secondMultiplier = 1
    /\ secondBudget = budgetArg
    /\ firstRequestData = NoRequestData
    /\ secondRequestData = NoRequestData
    /\ firstRequestEndpoint = NoEndpoint
    /\ numAttempts = 0
    /\ backoff = 0
    /\ triedAllOptions = FALSE
    /\ firstFinished = FALSE
    /\ lbPc = "start"
    /\ callResult = NoCallResult
    /\ laggingRequests = laggingArg
    /\ outstanding = laggingArg
    /\ failureChanges = 0
    /\ attempts = 0
    /\ lastProcessed = NoProcessed
    /\ maybeDeliveredAt = -1

\* ---- loadBalance ----

\* lines 273-321: the first pass over the alternatives, which stands at alternative i;
\* c holds bestAlt, nextAlt, their metrics and times, and badServers
RECURSIVE FirstPass(_, _, _, _)
FirstPass(i, countBest, qd, c) ==
    IF i = alternativesSize THEN c
    ELSE IF c.badServers < Min(i, LOAD_BALANCE_MAX_BAD_OPTIONS + 1) /\ i = countBest THEN c
    ELSE IF i \in failed \/ i \in debounced
         THEN FirstPass(i + 1, countBest, qd, [c EXCEPT !.badServers = @ + 1])
         ELSE LET thisMetric == qd[i].smoothOutstanding
                  thisTime == qd[i].latency
                  bad == c.badServers + (IF qd[i].penaltyBad THEN 1 ELSE 0)
              IN  FirstPass(i + 1, countBest, qd,
                      IF thisMetric < c.bestMetric
                      THEN IF i # c.bestAlt
                           THEN [bestAlt |-> i, bestMetric |-> thisMetric,
                                 bestTime |-> thisTime, nextAlt |-> c.bestAlt,
                                 nextMetric |-> c.bestMetric, nextTime |-> c.bestTime,
                                 badServers |-> bad]
                           ELSE [c EXCEPT !.bestMetric = thisMetric, !.bestTime = thisTime,
                                          !.badServers = bad]
                      ELSE IF thisMetric < c.nextMetric
                      THEN [c EXCEPT !.nextAlt = i, !.nextMetric = thisMetric,
                                     !.nextTime = thisTime, !.badServers = bad]
                      ELSE [c EXCEPT !.badServers = bad])

\* lines 326-341: the pass over the remote alternatives, which stands at alternative i
RECURSIVE SecondPass(_, _, _)
SecondPass(i, qd, c) ==
    IF i >= alternativesSize THEN c
    ELSE IF i \notin failed /\ i \notin debounced /\ qd[i].smoothOutstanding < c.nextMetric
         THEN SecondPass(i + 1, qd, [c EXCEPT !.nextAlt = i,
                                              !.nextMetric = qd[i].smoothOutstanding,
                                              !.nextTime = qd[i].latency])
         ELSE SecondPass(i + 1, qd, c)

\* lines 271-343: bestAlt and nextAlt as the metrics of the model decide, from the
\* random bestAlt and nextAlt of lines 266-269 (nextMetric > 1e8 is written with 1e9)
ModelChoice(countBest, best, next, qd) ==
    LET c == FirstPass(0, countBest, qd,
                       [bestAlt |-> best, bestMetric |-> Infinite, bestTime |-> Infinite,
                        nextAlt |-> next, nextMetric |-> Infinite, nextTime |-> Infinite,
                        badServers |-> 0])
    IN  IF c.nextMetric * 10 > Infinite THEN SecondPass(countBest, qd, c) ELSE c

\* lines 345-356: the time after which secondDelay fires: 0 for Void(), -1 for Never()
SecondDelayAfter(bestTime, nextTime) ==
    IF nextTime < Infinite
    THEN IF bestTime > INSTANT_SECOND_REQUEST_MULTIPLIER
                           * (secondMultiplier * nextTime + BASE_SECOND_REQUEST_TIME)
         THEN 0
         ELSE secondMultiplier * nextTime + BASE_SECOND_REQUEST_TIME
    ELSE -1

\* lines 266-363: the choice of bestAlt, nextAlt and secondDelay.  bestAlt is random
\* among the countBest local alternatives and nextAlt random among the others; with a
\* model the measurements qd of the QueueModel then decide
LoadBalanceStart(countBest, best, next, qd) ==
    /\ lbPc = "start"
    /\ best < countBest
    /\ countBest <= alternativesSize
    /\ \E r \in 0..(Max(alternativesSize - 1, 1) - 1) :
          next = IF r >= best THEN r + 1 ELSE r
    /\ LET c == ModelChoice(countBest, best, next, qd)
           after == SecondDelayAfter(c.bestTime, c.nextTime)
       IN  IF hasModel
           THEN /\ bestAlt' = c.bestAlt
                /\ nextAlt' = c.nextAlt
                /\ startAlt' = c.nextAlt
                /\ startDistance' =
                       (c.bestAlt + alternativesSize - c.nextAlt) % alternativesSize
                /\ secondDelay' = IF after = -1 THEN "never" ELSE "armed"
                /\ selection' = [bestTime |-> c.bestTime, nextTime |-> c.nextTime,
                                 after |-> after]
           ELSE /\ \A a \in Alternatives :
                      qd[a] = [smoothOutstanding |-> 0, latency |-> 1, penaltyBad |-> FALSE]
                /\ bestAlt' = best
                /\ nextAlt' = next
                /\ startAlt' = next
                /\ startDistance' = (best + alternativesSize - next) % alternativesSize
                /\ secondDelay' = "never"
                /\ selection' = NoSelection
    /\ lbPc' = "loop"
    /\ UNCHANGED <<debounced, alternativesSize, atMostOnce, hasModel, alwaysFresh, failed,
                   secondMultiplier, secondBudget,
                   firstRequestData, secondRequestData, firstRequestEndpoint, numAttempts,
                   backoff, triedAllOptions, firstFinished, callResult, laggingRequests,
                   outstanding, failureChanges, attempts, lastProcessed, maybeDeliveredAt>>
    /\ UNCHANGED <<masterVars, throttlerVars>>

\* a destructor that hands on no request
IsLaggingNever(rd) == FALSE

\* a destructor that hands on a request whether or not it has been sent
IsLaggingUnsent(rd) == rd.valid /\ ~rd.requestProcessed /\ hasModel

\* ~RequestData, lines 227-232: is the request handed on as a lagging request
IsLagging(rd) == rd.requestStarted /\ ~rd.requestProcessed /\ rd.modelHolder /\ hasModel

\* processing that releases no ModelHolder
HoldersNone(rd) == 0

\* the ModelHolders of the model that processing rd releases
Holders(rd) == IF rd.modelHolder /\ hasModel THEN 1 ELSE 0

\* ModelHolder::release, lines 56-62, for the holder of rd
release(out, rd) == modelEndRequest(out, rd.endpoint, Holders(rd) = 1)

\* makeLaggingRequest, lines 202-225; st holds the model's lagging collection and its
\* outstanding requests.  A collection that holds more than
\* MAX_LAGGING_REQUESTS_OUTSTANDING requests is cancelled first: the ModelHolders its
\* requests captured are destroyed, which releases them
makeLaggingRequest(st, rd) ==
    LET restart == SumOver(st.lagging, Alternatives) > MAX_LAGGING_REQUESTS_OUTSTANDING
        lagging == IF restart THEN NoTokens ELSE st.lagging
        out == IF restart THEN [t \in Alternatives |-> st.out[t] - st.lagging[t]] ELSE st.out
    IN  [lagging |-> [lagging EXCEPT ![rd.endpoint] = @ + 1], out |-> out]

\* ~RequestData, lines 227-232
DestroyRequestData(st, rd) == IF IsLagging(rd) THEN makeLaggingRequest(st, rd) ELSE st

\* the call ends with result: secondRequestData and then firstRequestData are
\* destroyed; out is what the model has outstanding after the releases of this step
EndCall(result, first, second, out) ==
    /\ lbPc' = "done"
    /\ callResult' = result
    /\ LET st == DestroyRequestData(
                     DestroyRequestData([lagging |-> laggingRequests, out |-> out], second),
                     first)
       IN  /\ laggingRequests' = st.lagging
           /\ outstanding' = st.out
    /\ firstRequestData' = NoRequestData
    /\ secondRequestData' = NoRequestData
    /\ UNCHANGED <<bestAlt, nextAlt, startAlt, startDistance, secondDelay,
                   firstRequestEndpoint, numAttempts, backoff, triedAllOptions, firstFinished>>

\* lines 533-537: the end of an iteration of the loop
EndIteration ==
    /\ nextAlt' = (nextAlt + 1) % alternativesSize
    /\ triedAllOptions' = (triedAllOptions \/ nextAlt' = startAlt)
    /\ secondDelay' = "never"
    /\ lbPc' = "loop"

\* RequestData::checkAndProcessResult, lines 184-198, when the request is retried
Processed(rd) ==
    [rd EXCEPT !.valid = FALSE, !.requestProcessed = TRUE, !.modelHolder = FALSE]

\* history: the result that was processed
Note(which, result) ==
    /\ lastProcessed' = [which |-> which, result |-> result, at |-> attempts,
                         futureVersion |-> FutureVersion(result)]
    /\ maybeDeliveredAt' = IF atMostOnce /\ MaybeDelivered(result) /\ maybeDeliveredAt = -1
                           THEN attempts ELSE maybeDeliveredAt

\* IFailureMonitor::onStateEqual(endpoint, FailureStatus(false)): ready when the
\* endpoint is seen not failed
onStateEqual(a, failedSet) == a \notin failedSet

\* lines 409-413 and 447: quorum(ok, 1) over the onStateEqual of every alternative
quorumOk(failedSet) == \E a \in Alternatives : onStateEqual(a, failedSet)

\* a test that does not look at the first request
EverythingIsDownNoStream == Found.stream = NoEndpoint

\* line 406: no alternative was found and no first request is in flight
EverythingIsDown == Found.stream = NoEndpoint /\ ~firstRequestData.valid

\* lines 406-413: wait for someone to be up; onStateEqual(endpoint, FailureStatus(false))
\* is ready at once for an endpoint that is not failed, and quorum(ok, 1) with it
AllDown ==
    /\ lbPc = "loop"
    /\ EverythingIsDown
    /\ nextAlt' = Found.nextAlt
    /\ triedAllOptions' = Found.triedAllOptions
    /\ lbPc' = IF quorumOk(failed) THEN "someoneUp" ELSE "allDown"
    /\ selection' = NoSelection
    /\ UNCHANGED <<debounced, alternativesSize, atMostOnce, hasModel, alwaysFresh, failed, bestAlt, startAlt, startDistance,
                   secondDelay, secondMultiplier, secondBudget, firstRequestData,
                   secondRequestData, firstRequestEndpoint, numAttempts, backoff, firstFinished,
                   callResult, laggingRequests, outstanding, failureChanges, attempts,
                   lastProcessed, maybeDeliveredAt>>
    /\ UNCHANGED <<masterVars, throttlerVars>>

\* lines 447 and 451-454: quorum(ok, 1) is ready, an alternative was seen up
SomeoneUp ==
    /\ lbPc = "someoneUp"
    /\ numAttempts' = 0
    /\ EndIteration
    /\ UNCHANGED <<debounced, selection, alternativesSize, atMostOnce, hasModel, alwaysFresh, failed, bestAlt, startAlt, startDistance,
                   secondMultiplier, secondBudget, firstRequestData, secondRequestData,
                   firstRequestEndpoint, backoff, firstFinished, callResult, laggingRequests,
                   outstanding, failureChanges, attempts, lastProcessed, maybeDeliveredAt>>
    /\ UNCHANGED <<masterVars, throttlerVars>>

\* line 448: the delay elapses while quorum(ok, 1) is not ready
AllAlternativesFailed ==
    /\ lbPc = "allDown"
    /\ ~alwaysFresh
    /\ EndCall(LbError("all_alternatives_failed"), firstRequestData, secondRequestData,
               outstanding)
    /\ UNCHANGED <<debounced, selection, alternativesSize, atMostOnce, hasModel, alwaysFresh, failed, secondMultiplier, secondBudget,
                   failureChanges, attempts, lastProcessed, maybeDeliveredAt>>
    /\ UNCHANGED <<masterVars, throttlerVars>>

\* lines 455-457: only the endpoint of the first request is available
OnlyFirst ==
    /\ lbPc = "loop"
    /\ Found.stream = NoEndpoint
    /\ firstRequestData.valid
    /\ nextAlt' = Found.nextAlt
    /\ triedAllOptions' = Found.triedAllOptions
    /\ lbPc' = "onlyFirst"
    /\ selection' = NoSelection
    /\ UNCHANGED <<debounced, alternativesSize, atMostOnce, hasModel, alwaysFresh, failed, bestAlt, startAlt, startDistance,
                   secondDelay, secondMultiplier, secondBudget, firstRequestData,
                   secondRequestData, firstRequestEndpoint, numAttempts, backoff, firstFinished,
                   callResult, laggingRequests, outstanding, failureChanges, attempts,
                   lastProcessed, maybeDeliveredAt>>
    /\ UNCHANGED <<masterVars, throttlerVars>>

\* lines 463-466: a second request goes out while the first is in flight; it is
\* attempt number n of the call
StartSecondRequest(n) ==
    /\ lbPc = "loop"
    /\ Found.stream # NoEndpoint
    /\ firstRequestData.valid
    /\ nextAlt' = Found.nextAlt
    /\ triedAllOptions' = Found.triedAllOptions
    /\ secondRequestData' = startRequest(backoff, Found.triedAllOptions, Found.stream)
    /\ outstanding' = modelAddRequest(outstanding, Found.stream, backoff = 0 /\ hasModel)
    /\ attempts' = n
    /\ firstFinished' = FALSE
    /\ lbPc' = "race"
    /\ selection' = NoSelection
    /\ UNCHANGED <<debounced, alternativesSize, atMostOnce, hasModel, alwaysFresh, failed, bestAlt, startAlt, startDistance,
                   secondDelay, secondMultiplier, secondBudget, firstRequestData,
                   firstRequestEndpoint, numAttempts, backoff, callResult, laggingRequests,
                   failureChanges, lastProcessed, maybeDeliveredAt>>
    /\ UNCHANGED <<masterVars, throttlerVars>>

StartSecond == attempts < MaxAttempts /\ StartSecondRequest(attempts + 1)

\* lines 492-495: the first request goes out; it is attempt number n of the call
StartFirstRequest(n) ==
    /\ lbPc = "loop"
    /\ Found.stream # NoEndpoint
    /\ ~firstRequestData.valid
    /\ nextAlt' = Found.nextAlt
    /\ triedAllOptions' = Found.triedAllOptions
    /\ firstRequestData' = startRequest(backoff, Found.triedAllOptions, Found.stream)
    /\ firstRequestEndpoint' = Found.stream
    /\ outstanding' = modelAddRequest(outstanding, Found.stream, backoff = 0 /\ hasModel)
    /\ attempts' = n
    /\ lbPc' = "first"
    /\ selection' = NoSelection
    /\ UNCHANGED <<debounced, alternativesSize, atMostOnce, hasModel, alwaysFresh, failed, bestAlt, startAlt, startDistance,
                   secondDelay, secondMultiplier, secondBudget, secondRequestData, numAttempts,
                   backoff, firstFinished, callResult, laggingRequests, failureChanges,
                   lastProcessed, maybeDeliveredAt>>
    /\ UNCHANGED <<masterVars, throttlerVars>>

StartFirst == attempts < MaxAttempts /\ StartFirstRequest(attempts + 1)

\* the reply of rd arrives and checkAndProcessResult returns true or throws: the call
\* returns the reply or raises the error
Finish(which, rd, result) ==
    LET outcome == checkAndProcessResultImpl(result, atMostOnce, rd.triedAllOptions)
        done == [rd EXCEPT !.requestProcessed = TRUE, !.modelHolder = FALSE]
        res == IF outcome.kind = "true" THEN [kind |-> "reply", code |-> "success"] ELSE outcome
    IN  /\ outcome.kind # "false"
        /\ Note(which, result)
        /\ IF which = "first"
           THEN EndCall(res, done, secondRequestData, release(outstanding, rd))
           ELSE EndCall(res, firstRequestData, done, release(outstanding, rd))

Retry(rd, result) ==
    checkAndProcessResultImpl(result, atMostOnce, rd.triedAllOptions).kind = "false"

\* lines 457-462: the reply of the first request, the only one awaited
OnlyFirstReply(result) ==
    /\ lbPc = "onlyFirst"
    /\ firstRequestData.requestStarted
    /\ \/ /\ Finish("first", firstRequestData, result)
          /\ UNCHANGED <<secondMultiplier, secondBudget>>
       \/ /\ Retry(firstRequestData, result)
          /\ Note("first", result)
          /\ firstRequestData' = Processed(firstRequestData)
          /\ firstRequestEndpoint' = NoEndpoint
          /\ outstanding' = release(outstanding, firstRequestData)
          /\ EndIteration
          /\ UNCHANGED <<bestAlt, startAlt, startDistance, secondMultiplier, secondBudget,
                         secondRequestData, numAttempts, backoff, firstFinished, callResult,
                         laggingRequests>>
    /\ UNCHANGED <<debounced, selection, alternativesSize, atMostOnce, hasModel, alwaysFresh, failed, failureChanges, attempts>>
    /\ UNCHANGED <<masterVars, throttlerVars>>

\* lines 469-477: the reply of the first request while the second is awaited too
RaceFirstReply(result) ==
    /\ lbPc = "race"
    /\ firstRequestData.valid
    /\ firstRequestData.requestStarted
    /\ \/ Finish("first", firstRequestData, result)
       \/ /\ Retry(firstRequestData, result)
          /\ Note("first", result)
          /\ firstRequestData' = Processed(firstRequestData)
          /\ firstRequestEndpoint' = NoEndpoint
          /\ firstFinished' = TRUE
          /\ outstanding' = release(outstanding, firstRequestData)
          /\ UNCHANGED <<bestAlt, nextAlt, startAlt, startDistance, secondDelay,
                         secondRequestData, numAttempts, backoff, triedAllOptions, lbPc,
                         callResult, laggingRequests>>
    /\ UNCHANGED <<debounced, selection, alternativesSize, atMostOnce, hasModel, alwaysFresh, failed, secondMultiplier, secondBudget,
                   failureChanges, attempts>>
    /\ UNCHANGED <<masterVars, throttlerVars>>

\* lines 478-491: the reply of the second request
RaceSecondReply(result) ==
    /\ lbPc = "race"
    /\ secondRequestData.requestStarted
    /\ \/ Finish("second", secondRequestData, result)
       \/ /\ Retry(secondRequestData, result)
          /\ Note("second", result)
          /\ secondRequestData' = Processed(secondRequestData)
          /\ outstanding' = release(outstanding, secondRequestData)
          /\ numAttempts' = Min(numAttempts + 1, MaxAttempts)
          /\ backoff' = NextBackoff(numAttempts + 1, backoff)
          /\ EndIteration
          /\ UNCHANGED <<bestAlt, startAlt, startDistance, firstRequestData,
                         firstRequestEndpoint, firstFinished, callResult, laggingRequests>>
    /\ UNCHANGED <<debounced, selection, alternativesSize, atMostOnce, hasModel, alwaysFresh, failed, secondMultiplier, secondBudget,
                   failureChanges, attempts>>
    /\ UNCHANGED <<masterVars, throttlerVars>>

\* lines 499-514 and 526-530: the reply of the first request, awaited with secondDelay
\* (++numAttempts is only compared with alternatives->size(); it is counted up to
\* MaxAttempts)
FirstReply(result) ==
    /\ lbPc = "first"
    /\ firstRequestData.requestStarted
    /\ secondMultiplier' = IF hasModel
                           THEN Max(secondMultiplier - SECOND_REQUEST_MULTIPLIER_DECAY, 1)
                           ELSE secondMultiplier
    /\ secondBudget' = IF hasModel
                       THEN Min(secondBudget + SECOND_REQUEST_BUDGET_GROWTH,
                                SECOND_REQUEST_MAX_BUDGET)
                       ELSE secondBudget
    /\ \/ Finish("first", firstRequestData, result)
       \/ /\ Retry(firstRequestData, result)
          /\ Note("first", result)
          /\ firstRequestData' = Processed(firstRequestData)
          /\ firstRequestEndpoint' = NoEndpoint
          /\ outstanding' = release(outstanding, firstRequestData)
          /\ numAttempts' = Min(numAttempts + 1, MaxAttempts)
          /\ backoff' = NextBackoff(numAttempts + 1, backoff)
          /\ EndIteration
          /\ UNCHANGED <<bestAlt, startAlt, startDistance, secondRequestData, firstFinished,
                         callResult, laggingRequests>>
    /\ UNCHANGED <<debounced, selection, alternativesSize, atMostOnce, hasModel, alwaysFresh, failed, failureChanges, attempts>>
    /\ UNCHANGED <<masterVars, throttlerVars>>

\* a test that does not look at the budget
HasBudgetAlways == hasModel

\* line 517: model && model->secondBudget >= 1.0
HasBudget == hasModel /\ secondBudget >= 1

\* lines 515-530: secondDelay fires; with budget the loop goes on to a second request
SecondDelayFires ==
    /\ lbPc = "first"
    /\ secondDelay = "armed"
    /\ IF HasBudget
       THEN /\ secondMultiplier' = secondMultiplier + SECOND_REQUEST_MULTIPLIER_GROWTH
            /\ secondBudget' = secondBudget - 1
            /\ numAttempts' = Min(numAttempts + 1, MaxAttempts)
            /\ backoff' = NextBackoff(numAttempts + 1, backoff)
            /\ EndIteration
       ELSE /\ secondDelay' = "never"
            /\ UNCHANGED <<secondMultiplier, secondBudget, numAttempts, backoff, nextAlt,
                           triedAllOptions, lbPc>>
    /\ UNCHANGED <<debounced, selection, alternativesSize, atMostOnce, hasModel, alwaysFresh, failed, bestAlt, startAlt, startDistance,
                   firstRequestData, secondRequestData, firstRequestEndpoint, firstFinished,
                   callResult, laggingRequests, outstanding, failureChanges, attempts,
                   lastProcessed, maybeDeliveredAt>>
    /\ UNCHANGED <<masterVars, throttlerVars>>

\* lines 104-109: the backoff delay of a request has elapsed, the request is sent
Sent(rd) == [rd EXCEPT !.requestStarted = TRUE, !.modelHolder = TRUE]

BackoffElapses ==
    /\ lbPc \in {"onlyFirst", "race", "first"}
    /\ \/ /\ firstRequestData.valid /\ ~firstRequestData.requestStarted
          /\ firstRequestData' = Sent(firstRequestData)
          /\ outstanding' = modelAddRequest(outstanding, firstRequestData.endpoint, hasModel)
          /\ UNCHANGED secondRequestData
       \/ /\ secondRequestData.valid /\ ~secondRequestData.requestStarted
          /\ secondRequestData' = Sent(secondRequestData)
          /\ outstanding' = modelAddRequest(outstanding, secondRequestData.endpoint, hasModel)
          /\ UNCHANGED firstRequestData
    /\ UNCHANGED <<debounced, selection, alternativesSize, atMostOnce, hasModel, alwaysFresh, failed, bestAlt, nextAlt, startAlt,
                   startDistance, secondDelay, secondMultiplier, secondBudget,
                   firstRequestEndpoint, numAttempts, backoff, triedAllOptions, firstFinished,
                   lbPc, callResult, laggingRequests, failureChanges, attempts, lastProcessed,
                   maybeDeliveredAt>>
    /\ UNCHANGED <<masterVars, throttlerVars>>

\* the caller cancels the call while it waits: the actor's state is destroyed
Cancel ==
    /\ lbPc \in {"allDown", "someoneUp", "onlyFirst", "race", "first"}
    /\ EndCall([kind |-> "cancelled", code |-> "actor_cancelled"], firstRequestData,
               secondRequestData, outstanding)
    /\ UNCHANGED <<debounced, selection, alternativesSize, atMostOnce, hasModel, alwaysFresh, failed, secondMultiplier, secondBudget,
                   failureChanges, attempts, lastProcessed, maybeDeliveredAt>>
    /\ UNCHANGED <<masterVars, throttlerVars>>

\* the failure monitor changes its report on alternative a while the call waits (the
\* call runs from a wait to the next without a pause); the quorum(ok, 1) of a call that
\* waits for someone to be up (line 447) is ready once a is not failed
FailureMonitorChange(a) ==
    /\ lbPc \in {"allDown", "onlyFirst", "race", "first"}
    /\ failureChanges < MaxFailureChanges
    /\ failureChanges' = failureChanges + 1
    /\ failed' = IF a \in failed THEN failed \ {a} ELSE failed \cup {a}
    /\ lbPc' = IF lbPc = "allDown" /\ quorumOk(failed') THEN "someoneUp" ELSE lbPc
    /\ UNCHANGED <<debounced, selection, alternativesSize, atMostOnce, hasModel, alwaysFresh, bestAlt, nextAlt, startAlt,
                   startDistance, secondDelay, secondMultiplier, secondBudget,
                   firstRequestData, secondRequestData, firstRequestEndpoint, numAttempts,
                   backoff, triedAllOptions, firstFinished, callResult, laggingRequests,
                   outstanding, attempts, lastProcessed, maybeDeliveredAt>>
    /\ UNCHANGED <<masterVars, throttlerVars>>

\* lines 220-223: the reply of a lagging request to endpoint t arrives, it is
\* classified and its ModelHolder is released
LaggingReply(t) ==
    /\ laggingRequests[t] > 0
    /\ laggingRequests' = [laggingRequests EXCEPT ![t] = @ - 1]
    /\ outstanding' = modelEndRequest(outstanding, t, TRUE)
    /\ UNCHANGED <<debounced, selection, alternativesSize, atMostOnce, hasModel, alwaysFresh, failed, bestAlt, nextAlt, startAlt,
                   startDistance, secondDelay, secondMultiplier, secondBudget,
                   firstRequestData, secondRequestData, firstRequestEndpoint, numAttempts,
                   backoff, triedAllOptions, firstFinished, lbPc, callResult, failureChanges,
                   attempts, lastProcessed, maybeDeliveredAt>>
    /\ UNCHANGED <<masterVars, throttlerVars>>

LoadBalanceNext ==
    \/ /\ lbPc = "start"
       /\ \E countBest \in 1..NumAlternatives, best \in Alternatives,
             next \in 0..NumAlternatives, qd \in [Alternatives -> QueueData] :
                LoadBalanceStart(countBest, best, next, qd)
    \/ AllDown
    \/ SomeoneUp
    \/ AllAlternativesFailed
    \/ OnlyFirst
    \/ StartSecond
    \/ StartFirst
    \/ \E result \in Results : OnlyFirstReply(result)
    \/ \E result \in Results : RaceFirstReply(result)
    \/ \E result \in Results : RaceSecondReply(result)
    \/ \E result \in Results : FirstReply(result)
    \/ SecondDelayFires
    \/ BackoffElapses
    \/ \E a \in Alternatives : FailureMonitorChange(a)
    \/ \E t \in Alternatives : LaggingReply(t)
    \/ Cancel

\* ---- specifications ----

vars == <<masterVars, throttlerVars, loadBalanceVars>>

\* no loadBalance call
LoadBalanceIdle == LoadBalanceInit(NumAlternatives, FALSE, FALSE, FALSE, {}, {}, 0, NoTokens)

Init == MasterInit(FALSE) /\ ThrottlerInit /\ LoadBalanceIdle

\* the live committed version runs with or without the version vector
LiveInit == (\E knob \in BOOLEAN : MasterInit(knob)) /\ ThrottlerInit /\ LoadBalanceIdle

\* provideVersions and serveUpdateRecoveryData
VersionNext ==
    \/ \E p \in Proxies, k \in RequestNums : \E m \in 0..(k - 1) : GetVersionArrive(p, k, m)
    \/ \E t \in versionTasks : GetVersionResume(t)
    \/ UpdateRecoveryDataAny
    \/ Tick

VersionSpec == Init /\ [][VersionNext]_vars

\* provideVersions and serveUpdateRecoveryData of a master that is idle for a while;
\* a request carries any mostRecentProcessedRequestNum
AllocationNext ==
    \/ \E p \in Proxies, k \in RequestNums : \E m \in 0..MaxRequestNum :
          GetVersionArrive(p, k, m)
    \/ \E t \in versionTasks : GetVersionResume(t)
    \/ UpdateRecoveryDataAny
    \/ Idle

AllocationSpec == Init /\ [][AllocationNext]_vars

\* serveLiveCommittedVersion and serveUpdateRecoveryData
LiveNext ==
    \/ \E req \in ReportRequests : ReportLiveCommittedVersion(req)
    \/ \E t \in prevTasks : WaitForPrevResume(t)
    \/ GetLiveCommittedVersion
    \/ UpdateRecoveryDataAny

LiveSpec == LiveInit /\ [][LiveNext]_vars

\* the reports of a database that is not locked
StreamRequests ==
    {req \in ReportRequests : req.minKnownCommittedVersion = 0 /\ ~req.locked}

\* serveLiveCommittedVersion as masterServerSwift runs it: the reports come through
\* the stream and are taken one after the other
ReportStreamNext ==
    \/ \E req \in StreamRequests : SendReport(req)
    \/ ServeLiveCommittedVersion
    \/ \E t \in prevTasks : WaitForPrevResume(t)
    \/ \E req \in StreamRequests : WaitForPrevCall(req)
    \/ GetLiveCommittedVersion

\* the version vector is enabled
ReportStreamInit == MasterInit(TRUE) /\ ThrottlerInit /\ LoadBalanceIdle

\* the loop takes a report when it can, and a task resumes when its wait is over
ReportStreamSpec ==
    /\ ReportStreamInit
    /\ [][ReportStreamNext]_vars
    /\ WF_vars(ServeLiveCommittedVersion)
    /\ WF_vars(\E t \in prevTasks : WaitForPrevResume(t))

\* one loadBalance call, for every choice of its parameters
LoadBalanceCallInit ==
    /\ MasterInit(FALSE)
    /\ ThrottlerInit
    /\ \E n \in 1..NumAlternatives, a \in BOOLEAN, m \in BOOLEAN, f \in BOOLEAN,
          down \in SUBSET (0..(NumAlternatives - 1)),
          slow \in SUBSET (0..(NumAlternatives - 1)),
          budget \in 0..SECOND_REQUEST_MAX_BUDGET, lagging \in 0..MaxLagging :
            /\ down \subseteq 0..(n - 1)
            /\ slow \subseteq 0..(n - 1)
            /\ LoadBalanceInit(n, a, m, f, down, slow, budget,
                               [NoTokens EXCEPT ![0] = lagging])
            /\ m \/ (budget = 0 /\ lagging = 0 /\ slow = {})

LoadBalanceSpec == LoadBalanceCallInit /\ [][LoadBalanceNext]_vars

\* the replies that carry process_behind
ProcessBehindResults == {result \in Results : ErrCode(result) = "process_behind"}

\* one loadBalance call whose endpoints are healthy
ProcessBehindInit ==
    /\ MasterInit(FALSE)
    /\ ThrottlerInit
    /\ \E n \in 1..NumAlternatives, a \in BOOLEAN, m \in BOOLEAN,
          budget \in 0..SECOND_REQUEST_MAX_BUDGET :
            /\ LoadBalanceInit(n, a, m, FALSE, {}, {}, budget, NoTokens)
            /\ m \/ budget = 0

\* the call while its endpoints stay healthy and answer every attempt with
\* process_behind; the attempts are counted up to MaxAttempts (with every endpoint
\* healthy the search of lines 388-404 finds a stream other than the first request's
\* whenever there are two alternatives, so the branch of lines 455-462 is not taken)
ProcessBehindNext ==
    \/ /\ lbPc = "start"
       /\ \E countBest \in 1..NumAlternatives, best \in Alternatives,
             next \in 0..NumAlternatives, qd \in [Alternatives -> QueueData] :
                LoadBalanceStart(countBest, best, next, qd)
    \/ StartSecondRequest(Min(attempts + 1, MaxAttempts))
    \/ StartFirstRequest(Min(attempts + 1, MaxAttempts))
    \/ \E result \in ProcessBehindResults : RaceFirstReply(result)
    \/ \E result \in ProcessBehindResults : RaceSecondReply(result)
    \/ \E result \in ProcessBehindResults : FirstReply(result)
    \/ SecondDelayFires
    \/ BackoffElapses
    \/ \E t \in Alternatives : LaggingReply(t)

\* the loop runs on, timers fire and every attempt is answered
ProcessBehindSpec ==
    ProcessBehindInit /\ [][ProcessBehindNext]_vars /\ WF_vars(ProcessBehindNext)

\* the throttler, its clients and its server loop
ThrottlerSpec == Init /\ [][ThrottlerNext]_vars

\* the server loop runs on: a call of releaseTransactions that can take a step takes
\* it, replies are sent, and again and again a release window admits every request
ThrottlerFairSpec ==
    /\ Init
    /\ [][ThrottlerNext]_vars
    /\ WF_vars(ReleasePop)
    /\ WF_vars(ReleaseTag)
    /\ WF_vars(ReleaseEnd)
    /\ WF_vars(SendReplies)
    /\ SF_vars(ReleaseBegin(AdmitAll))

\* ---- properties of the master ----

\* a suspended getVersion has resumed and returned in this step
GetVersionReturns ==
    /\ versionTasks' # versionTasks
    /\ getCommitVersionRequests' = getCommitVersionRequests

\* the versions issued so far, by proxy
IssuedVersions == {lastIssued[p] : p \in Proxies} \ {invalidVersion}

\* C1: liveCommittedVersion never decreases, whatever report, read or recovery
\* request is handled
C1_LiveNeverDecreases == [][liveCommittedVersion' >= liveCommittedVersion]_vars

\* a report older than the live committed version has been handled
C1_Witness ==
    /\ lastReport.version # invalidVersion
    /\ lastReport.version < liveCommittedVersion

\* C2 as stated: the prevVersion of a newly allocated reply is the version of the
\* previous reply issued to the same proxy
C2_PerProxyChain ==
    [][(/\ GetVersionReturns
        /\ lastReply'.kind = "new"
        /\ lastIssued[lastReply'.proxy] # invalidVersion)
       => lastReply'.prevVersion = lastIssued[lastReply'.proxy]]_vars

\* C2 amended: the prevVersion of a newly allocated reply is the version of the
\* reply the master allocated just before it, for whichever proxy; the master's first
\* reply carries lastEpochEnd
C2_MasterChain ==
    [][(GetVersionReturns /\ lastReply'.kind = "new")
       => /\ IssuedVersions = {} => lastReply'.prevVersion = lastEpochEnd
          /\ IssuedVersions # {} =>
                /\ lastReply'.prevVersion \in IssuedVersions
                /\ \A v \in IssuedVersions : v <= lastReply'.prevVersion]_vars

\* a reply to one proxy whose prevVersion is the version last issued to the other
C2_Witness ==
    /\ lastReply.kind = "new"
    /\ \E p \in Proxies \ {lastReply.proxy} :
          /\ lastIssued[p] # invalidVersion
          /\ lastReply.prevVersion = lastIssued[p]

\* C3 as stated, for a duplicate that reaches the registration object which answered
\* the first request: it gets the reply the first got
C3_DuplicateSameReply ==
    (lastReply.dup /\ lastReply.obj = watched.obj) =>
        /\ lastReply.kind = "cached"
        /\ lastReply.version = watched.version
        /\ lastReply.prevVersion = watched.prevVersion
        /\ lastReply.requestNum = watched.requestNum

\* C3 amended: a request that repeats an answered one, is served by the registration
\* object that answered the first and comes before a later request acknowledged it,
\* gets the reply the first got and advances neither version, lastVersionTime nor
\* latestRequestNum
C3_DuplicateWhileCached ==
    [][(/\ GetVersionReturns
        /\ lastReply'.dup
        /\ lastReply'.obj = watched.obj
        /\ ~watched.evicted)
       => /\ lastReply'.kind = "cached"
          /\ lastReply'.version = watched.version
          /\ lastReply'.prevVersion = watched.prevVersion
          /\ lastReply'.requestNum = watched.requestNum
          /\ version' = version
          /\ lastVersionTime' = lastVersionTime
          /\ watched.obj \in DOMAIN heap' =>
                heap'[watched.obj].latestRequestNum = heap[watched.obj].latestRequestNum]_vars

\* a duplicate has been answered from the replies of the object that answered the first
C3_Witness ==
    /\ lastReply.dup
    /\ lastReply.kind = "cached"
    /\ lastReply.obj = watched.obj
    /\ ~watched.evicted

\* C4: a new version is allocated for requestNum k only when latestRequestNum of the
\* proxy's object is k - 1, and the allocation moves it to k; the assertion of line
\* 172 never fails
C4_GapFreeOrder ==
    [][/\ "latest" \notin failedAssert'
       /\ (GetVersionReturns /\ lastReply'.kind = "new")
          => /\ heap[lastReply'.obj].latestRequestNum = lastReply'.requestNum - 1
             /\ lastReply'.obj \in DOMAIN heap' =>
                   heap'[lastReply'.obj].latestRequestNum = lastReply'.requestNum]_vars

\* a version was allocated for the second request of a proxy while a concurrent
\* duplicate of that request is still suspended
C4_Witness ==
    /\ lastReply.kind = "new"
    /\ lastReply.requestNum > 1
    /\ \E t \in versionTasks :
          /\ t.obj = lastReply.obj
          /\ t.requestNum = lastReply.requestNum

\* C5: a newly allocated version exceeds the prevVersion of its reply and the
\* version allocated before it, with or without a referenceVersion; the assertion of
\* line 150 never fails
C5_VersionsIncrease ==
    [][/\ "figure" \notin failedAssert'
       /\ (GetVersionReturns /\ lastReply'.kind = "new")
          => /\ lastReply'.version > lastReply'.prevVersion
             /\ lastReply'.version = version'
             /\ version' > version
             /\ \A v \in IssuedVersions : version' > v]_vars

\* figureVersion pulled the new version below current + toAdd by the whole offset
C5_Witness ==
    /\ lastReply.kind = "new"
    /\ referenceVersion.present
    /\ lastReply.version - lastReply.prevVersion =
          VERSIONS_PER_SECOND - RateModified(VERSIONS_PER_SECOND, MAX_VERSION_RATE_MODIFIER_PCT)

\* ---- properties of the throttler ----

SequenceNumbers == 0..(MaxAdds - 1)

\* the sequence numbers held by a deque
InDeque(deque) == {deque[i].sequenceNumber : i \in DOMAIN deque}

\* in how many places the request with sequence number s is
CountIn(deque, s) == Cardinality({i \in DOMAIN deque : deque[i].sequenceNumber = s})

Places(s) ==
    SumOver([t \in DOMAIN queues |-> CountIn(queues[t].requests, s)], DOMAIN queues)
    + CountIn(outBatchPriority, s) + CountIn(outDefaultPriority, s)
    + (IF s \in replied THEN 1 ELSE 0)

Queued(s) == \E t \in DOMAIN queues : s \in InDeque(queues[t].requests)

Released(s) == s \in InDeque(outBatchPriority) \cup InDeque(outDefaultPriority) \cup replied

\* the budget of tag t admits the request at the head of its queue
HeadAdmitted(t) ==
    \/ ~queues[t].rateInfo.present
    \/ canStart(queues[t].rateInfo, transactionsReleased[t], Head(queues[t].requests).count)

\* releaseTransactions is about to pop a tag while the requests s and u head the
\* queues of two tags, s is older than u, and both budgets admit them
BothAdmitted(s, u) ==
    /\ releasePc = "top"
    /\ s < u
    /\ \E a \in pq, b \in pq :
          /\ a.tag # b.tag
          /\ a.nextSeqNo = s
          /\ b.nextSeqNo = u
          /\ HeadAdmitted(a.tag)
          /\ HeadAdmitted(b.tag)

\* C6: when the budgets of two tags admit the requests at the heads of their queues
\* in a call of releaseTransactions, the older of the two requests is appended to an
\* output deque
C6_OlderReleasedFirst ==
    \A s \in SequenceNumbers : \A u \in (s + 1)..(MaxAdds - 1) : BothAdmitted(s, u) ~> Released(s)

\* C7: an iteration of the outer loop of releaseTransactions releases a request or
\* drops a tag from the priority queue: it never leaves the queues and the priority
\* queue as it found them
C7_OuterLoopProgress ==
    [][(releasePc = "tag" /\ releasePc' = "top")
       => ~(pq' = pq \cup {info} /\ queues' = queues)]_vars

\* C8: a request that was passed to addRequest is in exactly one place: its tag's
\* queue, one output deque, or replied to; outBatchPriority holds requests of batch
\* priority only and outDefaultPriority requests of default priority only
C8_ReleasedOnce ==
    /\ \A s \in SequenceNumbers :
          Places(s) = IF s < lastSequenceNumber THEN 1 ELSE 0
    /\ \A i \in DOMAIN outBatchPriority : outBatchPriority[i].priority = "BATCH"
    /\ \A i \in DOMAIN outDefaultPriority : outDefaultPriority[i].priority = "DEFAULT"

\* one call of releaseTransactions has released a request of each priority and left
\* a third request queued
C8_Witness ==
    /\ releasePc = "reply"
    /\ outBatchPriority # <<>>
    /\ outDefaultPriority # <<>>
    /\ \E s \in SequenceNumbers : Queued(s)

\* C9: every queued request is eventually released
C9_EventuallyReleased ==
    \A s \in SequenceNumbers : Queued(s) ~> Released(s)

\* ---- properties of the load balancer ----

\* the result is a reply without an error
Definite(result) ==
    /\ result.code = "success"
    /\ ~result.isError
    /\ result.lbError = "none"

\* C10: once an awaited attempt of an atMostOnce call has ended as broken_promise or
\* request_maybe_delivered (transport error or inner error), the call has raised
\* request_maybe_delivered and has started no further attempt; an atMostOnce call that
\* returned a reply got a reply without an error
C10_MaybeDeliveredRaised ==
    /\ (atMostOnce /\ maybeDeliveredAt # -1) =>
          /\ lbPc = "done"
          /\ callResult = LbError("request_maybe_delivered")
          /\ attempts = maybeDeliveredAt
    /\ (atMostOnce /\ callResult.kind = "reply") => Definite(lastProcessed.result)

\* the hedged second request of an atMostOnce call ended with the inner error
\* broken_promise and the call raised request_maybe_delivered
C10_Witness ==
    /\ atMostOnce
    /\ maybeDeliveredAt # -1
    /\ lastProcessed.which = "second"
    /\ lastProcessed.result.lb
    /\ lastProcessed.result.lbError = "broken_promise"
    /\ callResult = LbError("request_maybe_delivered")

\* the request of rd has been sent and its reply has not arrived
InFlight(rd) == rd.valid /\ rd.requestStarted /\ ~rd.requestProcessed

\* C11: a call with atMostOnce never has two of its attempts in flight at once, and
\* starts no attempt after one has ended as maybe delivered
C11_NoConcurrentAttempt ==
    atMostOnce =>
        /\ ~(InFlight(firstRequestData) /\ InFlight(secondRequestData))
        /\ maybeDeliveredAt # -1 => attempts = maybeDeliveredAt

\* the ModelHolders for endpoint t that the two RequestData of the call hold
LiveHolders(t) ==
    Cardinality({w \in {"first", "second"} :
        LET rd == IF w = "first" THEN firstRequestData ELSE secondRequestData
        IN  rd.modelHolder /\ hasModel /\ rd.endpoint = t})

\* C12: for every endpoint token the model has as many requests outstanding as there
\* are ModelHolders alive for it, held by a RequestData or by a lagging request: every
\* addRequest is matched by one endRequest when its holder goes, on every path, and
\* without a model nothing is counted
C12_HoldersBalanced ==
    /\ \A t \in Alternatives : outstanding[t] = LiveHolders(t) + laggingRequests[t]
    /\ ~hasModel => outstanding = NoTokens
    /\ (lbPc = "done" /\ laggingRequests = NoTokens) => outstanding = NoTokens

\* a call with a model was cancelled after it had started two attempts and processed
\* no reply, and no lagging request is left: their replies have arrived or their
\* collection was cancelled
C12_Witness ==
    /\ hasModel
    /\ attempts >= 2
    /\ callResult.kind = "cancelled"
    /\ lastProcessed.which = "none"
    /\ laggingRequests = NoTokens
    /\ outstanding = NoTokens

\* the call ends in this step
CallEnds == lbPc # "done" /\ lbPc' = "done"

\* the reply of request w ("first" or "second") is processed in this step
ProcessedNow(w) == lastProcessed' # lastProcessed /\ lastProcessed'.which = w

\* request w was sent to endpoint t and is left unanswered by this step
LeftInFlight(w, t) ==
    LET rd == IF w = "first" THEN firstRequestData ELSE secondRequestData
    IN  InFlight(rd) /\ rd.endpoint = t /\ ~ProcessedNow(w)

LeftInFlightAt(t) == Cardinality({w \in {"first", "second"} : LeftInFlight(w, t)})

LeftInFlightAll == Cardinality({w \in {"first", "second"} : \E t \in Alternatives : LeftInFlight(w, t)})

\* the reply of one lagging request arrives: the request leaves the collection and
\* its ModelHolder is released
OneLaggingReply ==
    \E t \in Alternatives :
        /\ laggingRequests[t] > 0
        /\ laggingRequests' = [laggingRequests EXCEPT ![t] = @ - 1]
        /\ outstanding' = [outstanding EXCEPT ![t] = @ - 1]

\* every request that is sent and unanswered is one the call is waiting for, and it
\* has a ModelHolder (the assertions of makeLaggingRequest)
AwaitedWhileInFlight ==
    /\ InFlight(firstRequestData) =>
          lbPc \in {"onlyFirst", "race", "first", "loop"} /\ firstRequestData.modelHolder
    /\ InFlight(secondRequestData) => lbPc = "race" /\ secondRequestData.modelHolder

SuccessNow ==
    /\ lastProcessed' # lastProcessed
    /\ checkAndProcessResultImpl(lastProcessed'.result, atMostOnce, FALSE) = LbTrue

\* C14: the call returns a reply exactly in the step that processes the first reply
\* classified as success, whether of the first or of the second request; when that
\* is the second request's reply and the first request is still in flight, the first
\* becomes a lagging request that still counts as outstanding for its endpoint, and
\* the count goes when the lagging reply arrives
C14_FirstSuccessReturned ==
    [][/\ (CallEnds /\ callResult'.kind = "reply") => SuccessNow
       /\ SuccessNow => (CallEnds /\ callResult'.kind = "reply")
       /\ (SuccessNow /\ ProcessedNow("second") /\ InFlight(firstRequestData)) =>
              /\ hasModel
              /\ laggingRequests'[firstRequestData.endpoint] >= 1
              /\ outstanding' = laggingRequests'
       /\ (~CallEnds /\ laggingRequests' # laggingRequests) => OneLaggingReply]_vars

\* the second request answered successfully while the first was in flight; the call
\* has returned and the first request is lagging
C14_Witness ==
    /\ lbPc = "done"
    /\ callResult.kind = "reply"
    /\ lastProcessed.which = "second"
    /\ firstRequestEndpoint = 1
    /\ laggingRequests[1] = 1
    /\ outstanding = laggingRequests


\* ---- cleanup of the throttler's queues ----

\* the arguments of updateRates
TagRates == UNION {[ts -> Rates] : ts \in SUBSET Tags}

\* the tags whose queue holds at least one pending request
Pending == {t \in DOMAIN queues : queues[t].requests # <<>>}

\* C15: after updateRates(newRates) a tag has a queue iff it is in newRates or its
\* queue holds a pending request, and size() is the number of these tags; a queue
\* keeps its requests, and has rate-info iff its tag is in newRates, so a queue of
\* a tag that newRates omits is gone once it holds no request
C15_UpdateRatesCleanup ==
    [][\A newRates \in TagRates :
          UpdateRates(newRates) =>
             /\ DOMAIN queues' = DOMAIN newRates \cup Pending
             /\ size' = Cardinality(DOMAIN newRates \cup Pending)
             /\ \A t \in DOMAIN queues' :
                   /\ queues'[t].rateInfo.present <=> t \in DOMAIN newRates
                   /\ t \in DOMAIN queues => queues'[t].requests = queues[t].requests
                   /\ t \notin DOMAIN newRates => queues'[t].requests # <<>>]_vars

\* a request was queued and released, and an updateRates that omits its tag has
\* removed the queue, the last one
C15_Witness ==
    /\ size = 0
    /\ lastSequenceNumber > 0
    /\ releasePc = "idle"
    /\ \A s \in SequenceNumbers : s < lastSequenceNumber => Released(s)


\* ---- requests that are never answered ----

\* a getCommitVersion request of a proxy that is not registered returns nil
UnregisteredStep ==
    \E p \in Proxies \ DOMAIN lastCommitProxyVersionReplies, k \in RequestNums :
       \E m \in 0..(k - 1) : GetVersionArrive(p, k, m)

\* a request resumes with a requestNum below latestRequestNum and no cached reply
StaleStep ==
    \E t \in versionTasks :
       /\ t.requestNum \notin DOMAIN heap[t.obj].replies
       /\ t.requestNum < heap[t.obj].latestRequestNum
       /\ GetVersionResume(t)

\* C17: a getCommitVersion request of an unregistered proxy, or one whose requestNum
\* is below latestRequestNum with no cached reply, gets no reply and leaves version,
\* lastVersionTime, every proxy's reply cache and every latestRequestNum unchanged
C17_NoReplyNoEffect ==
    [][(UnregisteredStep \/ StaleStep) =>
          /\ lastReply'.kind = "never"
          /\ version' = version
          /\ lastVersionTime' = lastVersionTime
          /\ lastCommitProxyVersionReplies' = lastCommitProxyVersionReplies
          /\ \A p \in DOMAIN lastCommitProxyVersionReplies :
                /\ lastCommitProxyVersionReplies[p] \in DOMAIN heap'
                /\ heap'[lastCommitProxyVersionReplies[p]] = heap[lastCommitProxyVersionReplies[p]]
          /\ \A o \in DOMAIN heap' : heap'[o] = heap[o]
          /\ failedAssert' = failedAssert]_vars

\* a registered proxy's request was found stale: its requestNum is below the
\* latestRequestNum of the proxy's replies, which still cache a later reply
C17_Witness ==
    /\ lastReply.kind = "never"
    /\ lastReply.proxy \in DOMAIN lastCommitProxyVersionReplies
    /\ lastReply.obj = lastCommitProxyVersionReplies[lastReply.proxy]
    /\ lastReply.obj \in DOMAIN heap
    /\ lastReply.requestNum < heap[lastReply.obj].latestRequestNum
    /\ lastReply.requestNum \notin DOMAIN heap[lastReply.obj].replies
    /\ DOMAIN heap[lastReply.obj].replies # {}
    /\ version # invalidVersion


\* ---- the live committed version ----

\* C18: getLiveCommittedVersion returns liveCommittedVersion as it is after the
\* call, which is at least every version whose report was acknowledged before; a
\* liveCommittedVersion of invalidVersion is first set to recoveryTransactionVersion,
\* and that is the version returned
C18_LiveReply ==
    /\ [](\A v \in acknowledged : GetRawCommittedVersionReply.version >= v)
    /\ [][GetLiveCommittedVersion =>
             /\ GetRawCommittedVersionReply.version = liveCommittedVersion'
             /\ (liveCommittedVersion = invalidVersion
                    => liveCommittedVersion' = recoveryTransactionVersion)
             /\ (liveCommittedVersion # invalidVersion
                    => liveCommittedVersion' = liveCommittedVersion)]_vars

\* getLiveCommittedVersion has set liveCommittedVersion, which no report did, and
\* the report acknowledged since has a version that is not above it
C18_Witness ==
    /\ applied = {}
    /\ acknowledged # {}
    /\ liveCommittedVersion # invalidVersion
    /\ liveCommittedVersion = recoveryTransactionVersion


\* the applied report with the highest version
HighestApplied == CHOOSE r \in applied : \A q \in applied : q.version <= r.version

\* C19: a report whose version is not greater than liveCommittedVersion leaves
\* liveCommittedVersion, databaseLocked and proxyMetadataVersion as they are, and
\* once a report was applied the three are the values of the applied report with
\* the highest version
C19_HighestReportWins ==
    /\ [](applied # {} =>
            /\ liveCommittedVersion = HighestApplied.version
            /\ databaseLocked = HighestApplied.locked
            /\ proxyMetadataVersion = HighestApplied.metadataVersion)
    /\ [][/\ \A req \in ReportRequests :
                (ReportLiveCommittedVersion(req) /\ req.version <= liveCommittedVersion)
                   => UNCHANGED <<liveCommittedVersion, databaseLocked, proxyMetadataVersion>>
          /\ \A t \in prevTasks :
                (WaitForPrevResume(t) /\ t.req.version <= liveCommittedVersion)
                   => UNCHANGED <<liveCommittedVersion, databaseLocked,
                                  proxyMetadataVersion>>]_vars

\* two reports were applied, and the report handled last, of a version that is not
\* above the live one, came after them
C19_Witness ==
    /\ Cardinality(applied) >= 2
    /\ lastReport.version <= liveCommittedVersion
    /\ \A r \in applied : r.version # lastReport.version \/ r # HighestApplied
    /\ Cardinality(acknowledged) >= 2


\* ---- all alternatives failed ----

\* the call ends with all_alternatives_failed
RaisesAllAlternativesFailed ==
    /\ CallEnds
    /\ callResult' = LbError("all_alternatives_failed")

\* C20: loadBalance raises all_alternatives_failed only out of the wait it enters
\* with every alternative reported failed and no attempt in flight, only for a set
\* that is not alwaysFresh, and only while no endpoint has become healthy; with an
\* alwaysFresh set the call leaves the wait only when an endpoint became healthy (or
\* when it is cancelled) and never ends with all_alternatives_failed
C20_AllAlternativesFailed ==
    /\ [](alwaysFresh => callResult # LbError("all_alternatives_failed"))
    /\ [][/\ AllDown =>
                /\ failed = Alternatives
                /\ ~firstRequestData.valid
                /\ ~secondRequestData.valid
          /\ RaisesAllAlternativesFailed =>
                /\ lbPc = "allDown"
                /\ failed = Alternatives
                /\ ~InFlight(firstRequestData)
                /\ ~InFlight(secondRequestData)
                /\ ~alwaysFresh
          /\ (alwaysFresh /\ lbPc = "allDown" /\ lbPc' # "allDown") =>
                \/ lbPc' = "someoneUp" /\ failed' # Alternatives
                \/ lbPc' = "done" /\ callResult'.kind = "cancelled"]_vars

\* an attempt was made and failed, then every alternative was reported failed and
\* the call raised all_alternatives_failed
C20_Witness ==
    /\ lbPc = "done"
    /\ callResult = LbError("all_alternatives_failed")
    /\ attempts >= 1
    /\ failureChanges >= 1
    /\ failed = Alternatives


\* ---- reports that carry a prevVersion ----

\* the step changes liveCommittedVersion, databaseLocked or proxyMetadataVersion
LiveChanges ==
    <<liveCommittedVersion, databaseLocked, proxyMetadataVersion>>' #
        <<liveCommittedVersion, databaseLocked, proxyMetadataVersion>>

\* C21 as stated: with the version vector enabled a report that carries a
\* prevVersion is not applied while liveCommittedVersion is below prevVersion
C21_AppliedAfterPrev ==
    [][/\ \A req \in ReportRequests :
             (/\ ReportLiveCommittedVersion(req)
              /\ enableVersionVector
              /\ req.prevVersion.present
              /\ LiveChanges) => liveCommittedVersion >= req.prevVersion.v
       /\ \A t \in prevTasks :
             (WaitForPrevResume(t) /\ LiveChanges)
                => liveCommittedVersion >= t.req.prevVersion.v]_vars

\* C21: with the version vector enabled a report that carries a prevVersion is not
\* applied while liveCommittedVersion is valid and below prevVersion; while
\* liveCommittedVersion is invalidVersion the report is applied at once
C21_AppliedAfterPrevOnceValid ==
    [][/\ \A req \in ReportRequests :
             (/\ ReportLiveCommittedVersion(req)
              /\ enableVersionVector
              /\ req.prevVersion.present
              /\ liveCommittedVersion # invalidVersion
              /\ LiveChanges) => liveCommittedVersion >= req.prevVersion.v
       /\ \A req \in ReportRequests :
             (/\ ReportLiveCommittedVersion(req)
              /\ liveCommittedVersion = invalidVersion) => lastReport'.version = req.version
       /\ \A t \in prevTasks :
             (WaitForPrevResume(t) /\ LiveChanges)
                => liveCommittedVersion >= t.req.prevVersion.v]_vars

\* a report that waited in waitForPrev has been applied
C21_Witness ==
    /\ enableVersionVector
    /\ \E r \in applied : r.waited


\* ---- the stream of reports ----

\* C22: a report that waits in waitForPrev does not keep the later reports from
\* being handled: every report sent to the master is eventually taken, and a
\* waiting report whose prevVersion is live is eventually applied and acknowledged
C22_WaitingDoesNotBlock ==
    /\ (reportStream # <<>>) ~> (reportStream = <<>>)
    /\ \A id \in 1..MaxReports :
          (\E t \in prevTasks : t.id = id /\ liveCommittedVersion >= t.req.prevVersion.v)
             ~> (\A t \in prevTasks : t.id # id)


\* ---- the chain of the allocated versions ----

\* C23: the replies newly allocated by one master form one chain, whichever proxy
\* asked: the first has version recoveryTransactionVersion and prevVersion
\* lastEpochEnd, every later one has the version of the reply allocated just before
\* it as its prevVersion; the master's version is the last allocated one, and
\* updateRecoveryData changes neither
C23_GlobalChain ==
    /\ [](version = lastAllocated)
    /\ [][/\ (GetVersionReturns /\ lastReply'.kind = "new") =>
                /\ lastAllocated = invalidVersion =>
                      /\ lastReply'.version = recoveryTransactionVersion
                      /\ lastReply'.prevVersion = lastEpochEnd
                /\ lastAllocated # invalidVersion =>
                      lastReply'.prevVersion = lastAllocated
                /\ lastAllocated' = lastReply'.version
          /\ UpdateRecoveryDataAny => UNCHANGED <<version, lastAllocated>>]_vars

\* the first reply was allocated with version 1; a later updateRecoveryData set
\* recoveryTransactionVersion to 3 and registered the proxies again, and the reply
\* allocated after it, through the new registration, has prevVersion 1
C23_Witness ==
    /\ lastReply.kind = "new"
    /\ lastReply.obj[1] = recoveries
    /\ recoveryTransactionVersion = 3
    /\ lastReply.prevVersion = 1
    /\ \E p \in Proxies : lastIssued[p] = 1


\* ---- the step of one allocation ----

\* C24: for every allocation after the first, version - prevVersion is at least 1
\* and at most MAX_READ_TRANSACTION_LIFE_VERSIONS, with or without a
\* referenceVersion
C24_StepBounded ==
    [][(GetVersionReturns /\ lastReply'.kind = "new" /\ lastAllocated # invalidVersion)
       => /\ lastReply'.version - lastReply'.prevVersion >= 1
          /\ lastReply'.version - lastReply'.prevVersion
                <= MAX_READ_TRANSACTION_LIFE_VERSIONS]_vars


\* ---- the latest reply stays cached ----

\* a request resumes in the branch of lines 119-125
StaleBranch ==
    \E t \in versionTasks :
       /\ t.requestNum \notin DOMAIN heap[t.obj].replies
       /\ t.requestNum <= heap[t.obj].latestRequestNum
       /\ GetVersionResume(t)
       /\ t.requestNum < heap[t.obj].latestRequestNum

\* C25: the reply for latestRequestNum is cached in every proxy's replies with
\* latestRequestNum > 0, whatever mostRecentProcessedRequestNum the requests carry;
\* a request in the stale branch has a requestNum below latestRequestNum and the
\* assertion of line 122 never fails
C25_LatestReplyCached ==
    /\ [](/\ "stale" \notin failedAssert
          /\ \A o \in DOMAIN heap :
                heap[o].latestRequestNum > 0 =>
                   /\ heap[o].latestRequestNum \in DOMAIN heap[o].replies
                   /\ heap[o].replies[heap[o].latestRequestNum].requestNum
                         = heap[o].latestRequestNum)
    /\ [][(\E t \in versionTasks :
             /\ t.requestNum \notin DOMAIN heap[t.obj].replies
             /\ t.requestNum <= heap[t.obj].latestRequestNum
             /\ GetVersionResume(t))
          => StaleBranch]_vars

\* a request that acknowledges its own requestNum was served, its reply is the only
\* one cached, and an older request of the proxy was then found stale
C25_Witness ==
    /\ lastReply.kind = "never"
    /\ lastReply.obj \in DOMAIN heap
    /\ heap[lastReply.obj].latestRequestNum = MaxRequestNum
    /\ DOMAIN heap[lastReply.obj].replies = {MaxRequestNum}
    /\ lastReply.requestNum < MaxRequestNum


\* ---- the proxies registered by updateRecoveryData ----

\* after the step the registered proxies are exactly those of the list, each with
\* an empty reply cache and latestRequestNum 0
RegisteredAfter(commitProxies) ==
    /\ DOMAIN lastCommitProxyVersionReplies' = commitProxies
    /\ \A p \in commitProxies :
          /\ lastCommitProxyVersionReplies'[p] \in DOMAIN heap'
          /\ heap'[lastCommitProxyVersionReplies'[p]] = NewCommitProxyVersionReplies

\* a request of an unregistered proxy gets no reply, and requestNum 1 that finds
\* latestRequestNum 0 in the registered object of its proxy gets a new version
ServedAsRegistered ==
    /\ \A p \in Proxies, k \in RequestNums, m \in 0..MaxRequestNum :
          (p \notin DOMAIN lastCommitProxyVersionReplies /\ m < k /\ GetVersionArrive(p, k, m))
             => lastReply'.kind = "never"
    /\ \A t \in versionTasks :
          (/\ t.requestNum = 1
           /\ t.proxy \in DOMAIN lastCommitProxyVersionReplies
           /\ t.obj = lastCommitProxyVersionReplies[t.proxy]
           /\ heap[t.obj].latestRequestNum = 0
           /\ GetVersionResume(t))
             => /\ lastReply'.kind = "new"
                /\ lastReply'.version = version'
                /\ version' # version

\* C26 as stated: after every updateRecoveryData the registered proxies are exactly
\* the commitProxies of the request, each with an empty reply cache and
\* latestRequestNum 0; requests of other proxies get no reply and requestNum 1 of a
\* listed proxy gets a newly allocated version
C26_RegisteredExactly ==
    [][/\ \A req \in RecoveryRequests, primaryLocality \in Localities :
             UpdateRecoveryData(req.recoveryTransactionVersion, req.lastEpochEnd,
                                req.commitProxies, req.versionEpoch, req.buggifyEpoch,
                                primaryLocality)
                => RegisteredAfter(req.commitProxies)
       /\ ServedAsRegistered]_vars

\* C26 amended: that holds after every updateRecoveryData with a non-empty
\* commitProxies list; one with an empty list leaves the registered proxies, their
\* reply caches and their latestRequestNum as they were
C26_RegisteredWhenListed ==
    [][/\ \A req \in RecoveryRequests, primaryLocality \in Localities :
             UpdateRecoveryData(req.recoveryTransactionVersion, req.lastEpochEnd,
                                req.commitProxies, req.versionEpoch, req.buggifyEpoch,
                                primaryLocality)
                => IF req.commitProxies # {}
                   THEN RegisteredAfter(req.commitProxies)
                   ELSE /\ lastCommitProxyVersionReplies' = lastCommitProxyVersionReplies
                        /\ \A p \in DOMAIN lastCommitProxyVersionReplies :
                              heap'[lastCommitProxyVersionReplies[p]]
                                 = heap[lastCommitProxyVersionReplies[p]]
       /\ ServedAsRegistered]_vars

\* the second updateRecoveryData registered p1 alone after p1 and p2 had been
\* registered, and requestNum 1 of p1 got a new version from the new object
C26_Witness ==
    /\ recoveries = 2
    /\ DOMAIN lastCommitProxyVersionReplies = {"p1"}
    /\ lastReply.kind = "new"
    /\ lastReply.requestNum = 1
    /\ lastReply.obj = <<2, "p1">>
    /\ lastReply.version > recoveryTransactionVersion


\* ---- the budget of a tag within one call of releaseTransactions ----

RECURSIVE SumCounts(_)
SumCounts(requests) ==
    IF requests = <<>> THEN 0 ELSE Head(requests).count + SumCounts(Tail(requests))

PqTags(q) == {a.tag : a \in q}

\* the head of the queue of tag t is refused by the budget of the tag
Refused(t) ==
    /\ t \in DOMAIN transactionsReleased
    /\ queues[t].requests # <<>>
    /\ ~HeadAdmitted(t)

\* C27: within a call of releaseTransactions the requests of a tag are released
\* from the front of its queue, each only if the tag has no rate-info or canStart
\* holds for the sum of the counts released for the tag in this call and the count
\* of the request; once the head of a tag is refused no request of the tag is
\* released in the call
C27_ReleaseWithinBudget ==
    [][(releasePc \in {"top", "tag"}) =>
          \A t \in DOMAIN queues :
             LET old == queues[t].requests
                 new == queues'[t].requests
                 n == Len(old) - Len(new)
             IN  /\ n >= 0
                 /\ new = SubSeq(old, n + 1, Len(old))
                 /\ \A i \in 1..n :
                       \/ ~queues[t].rateInfo.present
                       \/ canStart(queues[t].rateInfo,
                                   transactionsReleased[t] + SumCounts(SubSeq(old, 1, i - 1)),
                                   old[i].count)
                 /\ n > 0 =>
                       /\ releasePc = "tag" /\ t = info.tag
                       /\ transactionsReleased'[t]
                             = transactionsReleased[t] + SumCounts(SubSeq(old, 1, n))
                       /\ Len(outBatchPriority') + Len(outDefaultPriority')
                             = Len(outBatchPriority) + Len(outDefaultPriority) + n
                 /\ Refused(t) => /\ n = 0
                                  /\ releasePc = "tag" /\ t = info.tag => t \notin PqTags(pq')
                 /\ (t \notin PqTags(pq) /\ t # info.tag) => (n = 0 /\ t \notin PqTags(pq'))]_vars

\* a call released requests with a summed count of 2 for a tag and then refused the
\* head of the tag's queue, which stays queued and out of the priority queue
C27_Witness ==
    /\ releasePc = "top"
    /\ \E t \in DOMAIN transactionsReleased :
          /\ transactionsReleased[t] = 2
          /\ queues[t].rateInfo.present
          /\ Refused(t)
          /\ t \notin PqTags(pq)


\* ---- future_version ----

ProcessedData(w) == IF w = "first" THEN firstRequestData ELSE secondRequestData

\* the rotation from nextAlt to nextAlt' came by the starting index
Wrapped ==
    LET d == (nextAlt' + alternativesSize - nextAlt) % alternativesSize
        steps == IF d = 0 THEN alternativesSize ELSE d
    IN  \E j \in 1..steps : (nextAlt + j) % alternativesSize = startAlt

\* C29: an attempt answered with process_behind is retried, and nothing is raised,
\* unless the attempt was started with triedAllOptions true, and then the call
\* raises process_behind; triedAllOptions becomes true only when the rotation of
\* nextAlt comes by its starting index
C29_ProcessBehindAfterAll ==
    /\ [](callResult = LbError("process_behind") => triedAllOptions)
    /\ [][/\ \A w \in {"first", "second"} :
               (ProcessedNow(w) /\ ErrCode(lastProcessed'.result) = "process_behind") =>
                  IF ProcessedData(w).triedAllOptions
                  THEN callResult' = LbError("process_behind") /\ lbPc' = "done"
                  ELSE callResult' = NoCallResult /\ lbPc' # "done"
          /\ \A w \in {"first", "second"} :
               (ProcessedData(w)' # ProcessedData(w) /\ ProcessedData(w)'.valid
                  /\ ProcessedData(w)'.triedAllOptions) => triedAllOptions'
          /\ (triedAllOptions' /\ ~triedAllOptions) => Wrapped]_vars

\* two attempts were answered with process_behind and retried, the third was
\* started after the rotation had wrapped, and its process_behind was raised
C29_Witness ==
    /\ callResult = LbError("process_behind")
    /\ attempts = 3
    /\ lastProcessed.at = 3
    /\ failed = {}

\* ---- process_behind from every alternative ----

\* C30: while the endpoints stay healthy and every attempt is answered with
\* process_behind, the call eventually raises process_behind, for every number of
\* alternatives and every initial bestAlt and nextAlt
C30_EventuallyProcessBehind ==
    <>(lbPc = "done" /\ callResult = LbError("process_behind"))


\* ---- server_overloaded ----

\* C31: an attempt answered with server_overloaded, as transport error or as inner
\* error, is neither returned as the reply nor raised: its model holder is released
\* and the call goes on, also with atMostOnce
C31_OverloadedRetried ==
    /\ [](/\ callResult # LbError("server_overloaded")
          /\ callResult.kind = "reply"
                => ErrCode(lastProcessed.result) # "server_overloaded")
    /\ [][\A w \in {"first", "second"} :
            (ProcessedNow(w) /\ ErrCode(lastProcessed'.result) = "server_overloaded") =>
               /\ callResult' = NoCallResult
               /\ lbPc' # "done"
               /\ ProcessedData(w)'.requestProcessed
               /\ ~ProcessedData(w)'.modelHolder
               /\ ~ProcessedData(w)'.valid
               /\ outstanding' = release(outstanding, ProcessedData(w))]_vars

\* an atMostOnce call with a model got server_overloaded as the inner error of its
\* first attempt, released the holder of the attempt and is back in its loop
C31_Witness ==
    /\ atMostOnce
    /\ hasModel
    /\ lastProcessed.which = "first"
    /\ lastProcessed.result.lb
    /\ lastProcessed.result.lbError = "server_overloaded"
    /\ lastProcessed.at = attempts
    /\ lbPc = "loop"
    /\ callResult = NoCallResult
    /\ outstanding[0] = laggingRequests[0]


\* ---- the other errors ----

\* the errors that checkAndProcessResultImpl names
NamedErrors == {"broken_promise", "request_maybe_delivered", "server_overloaded",
                "future_version", "process_behind"}

\* C32: an error other than broken_promise, request_maybe_delivered,
\* server_overloaded, future_version and process_behind that an awaited attempt
\* returns, as transport error or as inner error, is raised unchanged by that
\* attempt whatever atMostOnce and triedAllOptions are, and no attempt is started
\* after it
C32_OtherErrorsRaised ==
    [][/\ \A w \in {"first", "second"} :
            (/\ ProcessedNow(w)
             /\ ErrCode(lastProcessed'.result) \in ErrorCodes \ NamedErrors) =>
               /\ callResult' = LbError(ErrCode(lastProcessed'.result))
               /\ lbPc' = "done"
               /\ attempts' = attempts
       /\ lbPc = "done" => UNCHANGED <<attempts, callResult, lastProcessed>>]_vars

\* the hedged second attempt of an atMostOnce call, started after every alternative
\* had been tried, returned wrong_shard_server as inner error and the call raised it
C32_Witness ==
    /\ atMostOnce
    /\ triedAllOptions
    /\ lastProcessed.which = "second"
    /\ lastProcessed.result.lb
    /\ lastProcessed.result.lbError = "wrong_shard_server"
    /\ callResult = LbError("wrong_shard_server")
    /\ lbPc = "done"


\* ---- the budget of second requests ----

\* the loop comes back to its head while the first request is in flight and another
\* alternative is there for a second request, which lines 463-466 then start
SecondRequestNext ==
    /\ lbPc # "loop"
    /\ lbPc' = "loop"
    /\ firstRequestData'.valid
    /\ \E a \in Alternatives : a \notin failed /\ a # firstRequestEndpoint'

\* C33: a second request is started while the first is in flight only if
\* secondBudget >= 1 at that moment, and every such start adds
\* SECOND_REQUEST_MULTIPLIER_GROWTH to secondMultiplier and takes exactly 1 from
\* secondBudget
C33_SecondWithinBudget ==
    [][SecondRequestNext =>
          /\ hasModel
          /\ secondBudget >= 1
          /\ secondBudget' = secondBudget - 1
          /\ secondMultiplier' = secondMultiplier + SECOND_REQUEST_MULTIPLIER_GROWTH]_vars


\* ---- the range of secondMultiplier and secondBudget ----

C37_SentWithoutBackoff ==
    [][attempts' # attempts /\ numAttempts = 0 =>
           IF lbPc' = "first" THEN firstRequestData'.requestStarted
           ELSE secondRequestData'.requestStarted]_vars

\* ---- C38 ----

\* the endpoint of the attempt that this step starts
Started == IF lbPc' = "race" THEN secondRequestData'.endpoint ELSE firstRequestData'.endpoint

\* C38: an attempt is never started on an endpoint that the failure monitor reports
\* failed when the endpoint is selected, and without a model the attempt goes to the
\* first endpoint, in the order in which the loop visits the alternatives from
\* nextAlt on, that is not reported failed; that order goes through every alternative
C38_SelectsNotFailed ==
    /\ [](lbPc # "start" /\ ~hasModel =>
             \A a \in Alternatives :
                 \E k \in 0..(alternativesSize - 1) :
                     UseAlt((nextAlt + k) % alternativesSize) = a)
    /\ [][attempts' # attempts =>
              /\ Started \in Alternatives
              /\ Started \notin failed
              /\ ~hasModel =>
                   \E k \in 0..(alternativesSize - 1) :
                       /\ UseAlt((nextAlt + k) % alternativesSize) = Started
                       /\ \A j \in 0..(k - 1) :
                              UseAlt((nextAlt + j) % alternativesSize) \in failed]_vars

\* without a model the first attempt went past the failed bestAlt to the other
\* alternative
C38_Witness ==
    /\ ~hasModel /\ lbPc = "first" /\ attempts = 1 /\ failureChanges = 0
    /\ bestAlt \in failed
    /\ firstRequestData.valid
    /\ firstRequestData.endpoint # bestAlt

\* ---- C35 ----

\* a second choice: an alternative other than best that is neither reported failed
\* nor held back by its failedUntil
ViableSecond(best) ==
    \E a \in Alternatives \ {best} : a \notin failed /\ a \notin debounced

\* C35: with a model and a viable second choice secondDelay fires at once exactly when
\* bestTime > INSTANT_SECOND_REQUEST_MULTIPLIER * (secondMultiplier * nextTime +
\* BASE_SECOND_REQUEST_TIME) and otherwise after secondMultiplier * nextTime +
\* BASE_SECOND_REQUEST_TIME
C35_TimerOfSecondChoice ==
    [][lbPc = "start" /\ lbPc' = "loop" /\ hasModel /\ ViableSecond(bestAlt') =>
           LET bound == secondMultiplier * selection'.nextTime + BASE_SECOND_REQUEST_TIME
           IN  /\ selection'.nextTime < Infinite
               /\ secondDelay' = "armed"
               /\ selection'.after = 0 <=>
                      selection'.bestTime > INSTANT_SECOND_REQUEST_MULTIPLIER * bound
               /\ selection'.after # 0 => selection'.after = bound]_vars

\* C35: the timer is as C35_TimerOfSecondChoice says, and a second request that goes
\* out because secondDelay fired, before any reply was processed, goes out only in a
\* call with a model whose choice had a viable second choice
C35_HedgeTimer ==
    /\ C35_TimerOfSecondChoice
    /\ [][/\ attempts' # attempts
          /\ lbPc' = "race"
          /\ lastProcessed = NoProcessed
          /\ failureChanges = 0
          => hasModel /\ ViableSecond(bestAlt)]_vars

\* ---- C39 ----

\* C39: a second request goes out only while the first request is in flight and never
\* to the endpoint of the first request, whatever bestAlt and nextAlt the choice gave;
\* the call awaits the second request only in the race, so it awaits at most two
\* attempts, and two that it awaits together are on different endpoints
C39_SecondElsewhere ==
    /\ [](/\ secondRequestData.valid => lbPc = "race"
          /\ firstRequestData.valid /\ secondRequestData.valid =>
                 firstRequestData.endpoint # secondRequestData.endpoint)
    /\ [][attempts' # attempts /\ lbPc' = "race" =>
              /\ firstRequestData.valid
              /\ firstRequestData' = firstRequestData
              /\ secondRequestData'.endpoint # firstRequestData.endpoint]_vars

\* the choice with the model gave the same alternative as bestAlt and as nextAlt, the
\* first request went to it and the second request is in flight elsewhere
C39_Witness ==
    /\ hasModel /\ lbPc = "race" /\ bestAlt = startAlt
    /\ firstRequestData.valid /\ secondRequestData.valid
    /\ firstRequestData.endpoint = bestAlt
    /\ secondRequestData.endpoint # bestAlt

\* ---- C40 ----

\* C40: a call with a model starts no attempt on an alternative whose failedUntil is
\* not before now() while some alternative is neither reported failed nor held back
\* by its failedUntil
C40_DebouncedSkipped ==
    [][/\ attempts' # attempts
       /\ hasModel
       /\ \E a \in Alternatives : a \notin failed /\ a \notin debounced
       => Started \notin debounced]_vars
====
